---------------------------- MODULE Spec2Model ----------------------------
(***************************************************************************)
(* Smart-HomeChef: the persistence module homechef/db.py (recipes, pantry, *)
(* grocery list, recipe notes) with its ingredient matcher, the recipe     *)
(* suggestion of homechef/ai.py, and the recipes page, cooking mode and    *)
(* chat of the two windows (homechef/ui.py, homechef/ui_pyqt6.py).         *)
(*                                                                         *)
(* A Python str is modelled as a sequence of one-character strings, so     *)
(* that strip, lower, replace, split, isdigit, join and splitlines are     *)
(* computed character by character as the interpreter computes them.       *)
(***************************************************************************)
EXTENDS Integers, Sequences, FiniteSets, TLC

VARIABLES
    recipes,        \* table recipes: id -> [title, ingredients_text,
                    \* steps_text, cook_time, is_favorite]; cook_time
                    \* is {} when NULL and {n} when n
    recipe_seq,     \* AUTOINCREMENT counter of table recipes
    pantry_items,   \* table pantry_items: the set of stored names (UNIQUE)
    grocery_items,  \* table grocery_items: id -> [name, is_checked]
    grocery_seq,    \* AUTOINCREMENT counter of table grocery_items
    recipe_notes,   \* table recipe_notes: recipe_id -> notes_text
    ui,             \* the fields of the window object, None before one is built
    op,             \* the last call made: [name, ...arguments]
    ret             \* what that call returned

vars == <<recipes, recipe_seq, pantry_items, grocery_items, grocery_seq,
          recipe_notes, ui, op, ret>>

(***************************************************************************)
(* Bounds of the exploration.                                              *)
(***************************************************************************)
MaxLineLen == 4     \* longest line enumerated for _normalize_ingredient
MaxNameLen == 2     \* longest enumerated pantry name
MaxPantry == 2      \* most rows kept in pantry_items
MaxAdded == 1       \* most recipes added on top of the samples
MaxGroceryId == 3   \* largest id handed out by table grocery_items

(***************************************************************************)
(* Characters and the str methods db.py uses.                              *)
(***************************************************************************)
UpperCase ==
    <<"A","B","C","D","E","F","G","H","I","J","K","L","M",
      "N","O","P","Q","R","S","T","U","V","W","X","Y","Z">>

LowerCase ==
    <<"a","b","c","d","e","f","g","h","i","j","k","l","m",
      "n","o","p","q","r","s","t","u","v","w","x","y","z">>

Digits == {"0","1","2","3","4","5","6","7","8","9"}

\* the characters str.strip() and str.split() treat as whitespace
Whitespace == {" ", "\t", "\n", "\r", "\f"}

\* the line boundaries of str.splitlines()
LineBreaks == {"\n", "\r", "\f"}

\* the list of characters _normalize_ingredient replaces by a space
Punctuation == <<",", ".", ";", ":", "(", ")">>

\* the value of a Python call that returns nothing, or finds nothing
None == [none |-> TRUE]

\* str.lower() on one character
lower_char(c) ==
    IF \E i \in 1..Len(UpperCase) : UpperCase[i] = c
    THEN LowerCase[CHOOSE i \in 1..Len(UpperCase) : UpperCase[i] = c]
    ELSE c

\* str.lower()
lower(s) == [i \in 1..Len(s) |-> lower_char(s[i])]

\* str.strip(): drops leading and trailing whitespace
strip(s) ==
    LET keep == {i \in 1..Len(s) : s[i] \notin Whitespace}
    IN  IF keep = {} THEN <<>>
        ELSE LET first == CHOOSE i \in keep : \A j \in keep : i <= j
                 last  == CHOOSE i \in keep : \A j \in keep : j <= i
             IN  SubSeq(s, first, last)

\* str.replace(ch, to) for a one-character ch
replace(s, ch, to) == [i \in 1..Len(s) |-> IF s[i] = ch THEN to ELSE s[i]]

\* str.split() without argument: the maximal runs of non-whitespace
RECURSIVE split(_)
split(s) ==
    IF Len(s) = 0 THEN <<>>
    ELSE IF s[1] \in Whitespace THEN split(SubSeq(s, 2, Len(s)))
    ELSE LET n == CHOOSE k \in 1..Len(s) :
                      /\ \A i \in 1..k : s[i] \notin Whitespace
                      /\ k = Len(s) \/ s[k + 1] \in Whitespace
         IN  <<SubSeq(s, 1, n)>> \o split(SubSeq(s, n + 1, Len(s)))

\* str.isdigit(): non-empty and every character a digit
isdigit(tok) == Len(tok) > 0 /\ \A i \in 1..Len(tok) : tok[i] \in Digits

\* sep.join(toks)
RECURSIVE join(_, _)
join(sep, toks) ==
    IF Len(toks) = 0 THEN <<>>
    ELSE IF Len(toks) = 1 THEN toks[1]
    ELSE toks[1] \o sep \o join(sep, Tail(toks))

\* str.splitlines(): cut at line boundaries ("\r\n" is one boundary), no
\* empty last line after a trailing boundary
RECURSIVE splitlines(_)
splitlines(s) ==
    IF Len(s) = 0 THEN <<>>
    ELSE LET brk == {i \in 1..Len(s) : s[i] \in LineBreaks}
         IN  IF brk = {} THEN <<s>>
             ELSE LET b == CHOOSE i \in brk : \A j \in brk : i <= j
                      e == IF s[b] = "\r" /\ b < Len(s) /\ s[b + 1] = "\n"
                           THEN b + 1 ELSE b
                  IN  <<SubSeq(s, 1, b - 1)>>
                          \o splitlines(SubSeq(s, e + 1, Len(s)))

\* the for loop of _normalize_ingredient: one replace per listed character
RECURSIVE replace_all(_, _)
replace_all(s, chars) ==
    IF Len(chars) = 0 THEN s
    ELSE replace_all(replace(s, Head(chars), " "), Tail(chars))

\* the comprehension with the test on the first character only
\* (tok[0].isdigit()), which also drops "1/2" and "200g"
not_digit_tokens_first_char(toks) ==
    SelectSeq(toks, LAMBDA tok : ~isdigit(SubSeq(tok, 1, 1)))

\* the list comprehension [tok for tok in toks if not tok.isdigit()]
not_digit_tokens(toks) == SelectSeq(toks, LAMBDA tok : ~isdigit(tok))

\* the normalizer with the punctuation replaced after the numeric tokens
\* were dropped instead of before
_normalize_ingredient_replace_last(line) ==
    LET s == join(<<" ">>, not_digit_tokens(split(lower(strip(line)))))
    IN  replace_all(s, Punctuation)

\* the normalizer falling back to the stripped line when no token is left
\* (' '.join(...) or s)
_normalize_ingredient_or_line(line) ==
    LET s == replace_all(lower(strip(line)), Punctuation)
        r == join(<<" ">>, not_digit_tokens(split(s)))
    IN  IF r = <<>> THEN s ELSE r

_normalize_ingredient(line) ==
    LET s == replace_all(lower(strip(line)), Punctuation)
    IN  join(<<" ">>, not_digit_tokens(split(s)))

(***************************************************************************)
(* The sample recipes init_db() inserts into an empty table.               *)
(***************************************************************************)
SampleRecipes ==
    <<[title |->
    <<"S","i","m","p","l","e"," ","C","r","e","p","e","s">>,
       ingredients_text |->
    <<"1"," ","c","u","p"," ","f","l","o","u","r","\n","2"," ","e","g","g",
      "s","\n","1","/","2"," ","c","u","p"," ","m","i","l","k","\n","1","/",
      "2"," ","c","u","p"," ","w","a","t","e","r","\n","P","i","n","c","h",
      " ","o","f"," ","s","a","l","t","\n","1"," ","t","b","s","p"," ","b",
      "u","t","t","e","r">>,
       steps_text |->
    <<"1",")"," ","W","h","i","s","k"," ","f","l","o","u","r"," ","a","n","d",
      " ","e","g","g","s",".","\n","2",")"," ","G","r","a","d","u","a","l",
      "l","y"," ","a","d","d"," ","m","i","l","k"," ","a","n","d"," ","w","a",
      "t","e","r"," ","w","h","i","l","e"," ","w","h","i","s","k","i","n","g",
      ".","\n","3",")"," ","A","d","d"," ","s","a","l","t"," ","a","n","d",
      " ","m","e","l","t","e","d"," ","b","u","t","t","e","r",";"," ","w","h",
      "i","s","k"," ","u","n","t","i","l"," ","s","m","o","o","t","h",".",
      "\n","4",")"," ","H","e","a","t"," ","a"," ","l","i","g","h","t","l",
      "y"," ","o","i","l","e","d"," ","p","a","n",","," ","p","o","u","r"," ",
      "b","a","t","t","e","r",","," ","c","o","o","k"," ","e","a","c","h"," ",
      "s","i","d","e"," ","1","-","2"," ","m","i","n","u","t","e","s",".">>,
       cook_time |-> {20},
       is_favorite |-> 0],
      [title |->
    <<"P","a","s","t","a"," ","A","g","l","i","o"," ","e"," ","O","l","i","o">>,
       ingredients_text |->
    <<"2","0","0","g"," ","s","p","a","g","h","e","t","t","i","\n","3"," ",
      "c","l","o","v","e","s"," ","g","a","r","l","i","c","\n","4"," ","t",
      "b","s","p"," ","o","l","i","v","e"," ","o","i","l","\n","R","e","d",
      " ","p","e","p","p","e","r"," ","f","l","a","k","e","s","\n","S","a",
      "l","t","\n","P","a","r","s","l","e","y">>,
       steps_text |->
    <<"1",")"," ","C","o","o","k"," ","s","p","a","g","h","e","t","t","i"," ",
      "u","n","t","i","l"," ","a","l"," ","d","e","n","t","e",".","\n","2",
      ")"," ","G","e","n","t","l","y"," ","c","o","o","k"," ","s","l","i","c",
      "e","d"," ","g","a","r","l","i","c"," ","i","n"," ","o","l","i","v","e",
      " ","o","i","l",";"," ","a","d","d"," ","p","e","p","p","e","r"," ","f",
      "l","a","k","e","s",".","\n","3",")"," ","T","o","s","s"," ","p","a",
      "s","t","a"," ","w","i","t","h"," ","o","i","l",","," ","s","e","a","s",
      "o","n"," ","w","i","t","h"," ","s","a","l","t",","," ","f","i","n","i",
      "s","h"," ","w","i","t","h"," ","p","a","r","s","l","e","y",".">>,
       cook_time |-> {15},
       is_favorite |-> 0],
      [title |->
    <<"V","e","g","g","i","e"," ","O","m","e","l","e","t","t","e">>,
       ingredients_text |->
    <<"3"," ","e","g","g","s","\n","1","/","4"," ","c","u","p"," ","m","i",
      "l","k","\n","1","/","4"," ","c","u","p"," ","d","i","c","e","d"," ",
      "b","e","l","l"," ","p","e","p","p","e","r","\n","1","/","4"," ","c",
      "u","p"," ","d","i","c","e","d"," ","o","n","i","o","n","\n","S","a",
      "l","t","\n","P","e","p","p","e","r","\n","O","l","i","v","e"," ","o",
      "i","l">>,
       steps_text |->
    <<"1",")"," ","W","h","i","s","k"," ","e","g","g","s"," ","w","i","t","h",
      " ","m","i","l","k",","," ","s","a","l","t",","," ","p","e","p","p","e",
      "r",".","\n","2",")"," ","S","a","u","t","é"," ","p","e","p","p","e",
      "r","s"," ","a","n","d"," ","o","n","i","o","n","s"," ","i","n"," ","o",
      "i","l",".","\n","3",")"," ","P","o","u","r"," ","e","g","g","s",",",
      " ","c","o","o","k"," ","u","n","t","i","l"," ","s","e","t",";"," ","f",
      "o","l","d"," ","a","n","d"," ","s","e","r","v","e",".">>,
       cook_time |-> {10},
       is_favorite |-> 0]>>

(***************************************************************************)
(* Inputs.                                                                 *)
(***************************************************************************)
\* every string of at most n characters of the set chars
Strings(chars, n) == UNION {[1..k -> chars] : k \in 0..n}

LineAlphabet == {"a", "B", "1", " ", ".", ";", ")", "/"}

ExampleLines ==
    {<<"2"," ","c","u","p","s"," ","w","h","o","l","e"," ","M","i","l","k",
       ".">>,
     <<"1","/","4"," ","t","s","p"," ","r","e","d"," ","p","e","p","p","e",
       "r"," ","f","l","a","k","e","s">>,
     <<" ","S","a","l","t",","," ","(","t","o",":","t","a","s","t","e",")",
       ";","\t","1","2"," ">>}

LineInputs == ExampleLines \cup Strings(LineAlphabet, MaxLineLen)

(***************************************************************************)
(* State after construction: both UIs call init_db() first, which creates  *)
(* the empty tables and inserts the samples.                               *)
(***************************************************************************)
Init ==
    /\ recipes = [i \in 1..Len(SampleRecipes) |-> SampleRecipes[i]]
    /\ recipe_seq = Len(SampleRecipes)
    /\ pantry_items = {}
    /\ grocery_items = << >>
    /\ grocery_seq = 0
    /\ recipe_notes = << >>
    /\ ui = None
    /\ op = [name |-> "init_db"]
    /\ ret = None

(***************************************************************************)
(* Inputs of the database calls.                                           *)
(***************************************************************************)
TitleInputs == {<<" ","T","e","a">>}

\* the texts typed into the ingredients box, one line per ingredient
RecipeTexts ==
    {<<"1"," ","c","u","p"," ","f","l","o","u","r","\n","2"," ","e","g","g",
       "s","\n","1","/","2"," ","c","u","p"," ","m","i","l","k">>,
     <<"3"," ","t","b","s","p"," ","s","u","g","a","r","\n","1"," ","t","b",
       "s","p"," ","s","u","g","a","r">>,
     <<"1","/","4"," ","t","s","p"," ","r","e","d"," ","p","e","p","p","e",
       "r"," ","f","l","a","k","e","s">>,
     \* key a, a blank line, a line with nothing left, key a again
     <<"1"," ","a","\n"," ","\n","2",".","(","5",")","\r","\n","b"," ","A",
       ".">>,
     \* keys a, flour, a: a key repeated after another one
     <<"\t","A",";","\n","a"," ","F","l","o","u","r","\n","(","a",")","\n">>,
     \* no line at all
     <<" ","\n">>}

\* pantry names offered while recipes are matched
KeyNames ==
    {<<"a">>, <<"f","l","o","u","r">>, <<"E","g","g","s"," ">>,
     <<"p","e","p","p","e","r">>}

NameAlphabet == {"a", "A", " "}

ExampleNames ==
    {<<" ","M","i","l","k",".">>, <<"m","i","l","k">>,
     <<"2"," ","E","g","g","s">>}

\* pantry names offered to the pantry calls
NameInputs == ExampleNames \cup Strings(NameAlphabet, MaxNameLen)

(***************************************************************************)
(* The calls of db.py.                                                     *)
(***************************************************************************)
\* a row of recipes, or None
get_recipe(recipe_id) ==
    IF recipe_id \in DOMAIN recipes THEN recipes[recipe_id] ELSE None

\* the stored names (ORDER BY name; its only caller makes a set of them)
list_pantry == pantry_items

\* the tables other than recipes
other_tables == <<pantry_items, grocery_items, grocery_seq, recipe_notes>>

\* the tables other than pantry_items
not_pantry == <<recipes, recipe_seq, grocery_items, grocery_seq, recipe_notes>>

\* every table
tables == <<recipes, recipe_seq, pantry_items, grocery_items, grocery_seq,
            recipe_notes>>

\* the insert made under the id of the last row
add_recipe_reusing_id(title, ingredients_text, steps_text, cook_time) ==
    /\ recipe_seq < Len(SampleRecipes) + MaxAdded
    /\ LET rid == recipe_seq
       IN  /\ recipes' = [i \in DOMAIN recipes \cup {rid} |->
                            IF i = rid
                            THEN [title |-> strip(title),
                                  ingredients_text |-> strip(ingredients_text),
                                  steps_text |-> strip(steps_text),
                                  cook_time |-> cook_time,
                                  is_favorite |-> 0]
                            ELSE recipes[i]]
           /\ recipe_seq' = rid
           /\ op' = [name |-> "add_recipe"]
           /\ ret' = rid
    /\ UNCHANGED <<other_tables, ui>>

\* cook_time is Optional[int] and the column may be NULL: the value is the
\* set {} for None and {n} for the integer n; is_favorite DEFAULT 0
add_recipe(title, ingredients_text, steps_text, cook_time) ==
    /\ recipe_seq < Len(SampleRecipes) + MaxAdded
    /\ LET rid == recipe_seq + 1
       IN  /\ recipes' = [i \in DOMAIN recipes \cup {rid} |->
                            IF i = rid
                            THEN [title |-> strip(title),
                                  ingredients_text |-> strip(ingredients_text),
                                  steps_text |-> strip(steps_text),
                                  cook_time |-> cook_time,
                                  is_favorite |-> 0]
                            ELSE recipes[i]]
           /\ recipe_seq' = rid
           /\ op' = [name |-> "add_recipe"]
           /\ ret' = rid
    /\ UNCHANGED <<other_tables, ui>>

\* INSERT OR IGNORE of the name stripped only, its case kept
insert_pantry_name_case_kept(name) == pantry_items \cup {strip(name)}

\* INSERT OR IGNORE INTO pantry_items (name) VALUES (name.strip().lower());
\* name is UNIQUE, so a name already stored is ignored
insert_pantry_name(name) == pantry_items \cup {lower(strip(name))}

add_pantry_item(name) ==
    /\ pantry_items' = IF name = <<>> THEN pantry_items
                       ELSE insert_pantry_name(name)
    /\ Cardinality(pantry_items') <= MaxPantry
    /\ op' = [name |-> "add_pantry_item", arg |-> name]
    /\ ret' = None
    /\ UNCHANGED <<not_pantry, ui>>

remove_pantry_item(name) ==
    /\ pantry_items' = pantry_items \ {lower(strip(name))}
    /\ op' = [name |-> "remove_pantry_item", arg |-> name]
    /\ ret' = None
    /\ UNCHANGED <<not_pantry, ui>>

\* the last token read as the first one (item.split()[0])
key_of_first_token(item) ==
    IF split(item) # <<>> THEN split(item)[1] ELSE item

\* key = item.split()[-1] if item.split() else item
key_of(item) ==
    IF split(item) # <<>> THEN split(item)[Len(split(item))] ELSE item

\* item and key of every line, in the order of the lines
keys_of(lines) ==
    [i \in 1..Len(lines) |-> key_of(_normalize_ingredient(lines[i]))]

\* the test inverted: "if key and key in pantry"
missing_of_present(keys, pantry) ==
    SelectSeq(keys, LAMBDA key : key # <<>> /\ key \in pantry)

\* the test without its first half: "if key not in pantry"
missing_of_any_key(keys, pantry) ==
    SelectSeq(keys, LAMBDA key : key \notin pantry)

\* the keys appended to missing: "if key and key not in pantry"
missing_of(keys, pantry) ==
    SelectSeq(keys, LAMBDA key : key # <<>> /\ key \notin pantry)

\* the second loop comparing each key with the one before it only
RECURSIVE uniq_adjacent(_, _)
uniq_adjacent(missing, seen) ==
    IF Len(missing) = 0 THEN <<>>
    ELSE IF Head(missing) \in seen
         THEN uniq_adjacent(Tail(missing), {Head(missing)})
         ELSE <<Head(missing)>>
                  \o uniq_adjacent(Tail(missing), {Head(missing)})

\* the second loop: the keys of missing not seen before, in order
RECURSIVE uniq(_, _)
uniq(missing, seen) ==
    IF Len(missing) = 0 THEN <<>>
    ELSE IF Head(missing) \in seen
         THEN uniq(Tail(missing), seen)
         ELSE <<Head(missing)>>
                  \o uniq(Tail(missing), seen \cup {Head(missing)})

\* [l for l in ingredients_text.splitlines() if l.strip()]
ingredients_lines(recipe) ==
    SelectSeq(splitlines(recipe.ingredients_text),
              LAMBDA l : strip(l) # <<>>)

\* both loops stopped at the first missing key
unique_missing_first_only(keys, pantry) ==
    SubSeq(uniq(missing_of(keys, pantry), {}), 1, 1)

\* both loops on the keys of the lines: missing, then uniq
unique_missing(keys, pantry) == uniq(missing_of(keys, pantry), {})

compute_missing_ingredients(recipe_id) ==
    LET recipe == get_recipe(recipe_id)
    IN  IF recipe = None THEN <<>>
        ELSE unique_missing(keys_of(ingredients_lines(recipe)), list_pantry)

\* a call that also takes the matched keys out of the pantry
compute_missing_ingredients_consuming(recipe_id) ==
    /\ op' = [name |-> "compute_missing_ingredients", arg |-> recipe_id]
    /\ ret' = compute_missing_ingredients(recipe_id)
    /\ pantry_items' =
          IF get_recipe(recipe_id) = None THEN pantry_items
          ELSE LET keys == keys_of(ingredients_lines(get_recipe(recipe_id)))
               IN  pantry_items \ {keys[i] : i \in DOMAIN keys}
    /\ UNCHANGED <<not_pantry, ui>>

\* a call of compute_missing_ingredients(recipe_id)
compute_missing_ingredients_call(recipe_id) ==
    /\ op' = [name |-> "compute_missing_ingredients", arg |-> recipe_id]
    /\ ret' = compute_missing_ingredients(recipe_id)
    /\ UNCHANGED <<tables, ui>>

\* init_db() inserting the samples whatever the table holds
init_db_inserting_always ==
    /\ recipes' = [i \in DOMAIN recipes
                         \cup (recipe_seq + 1)..(recipe_seq + Len(SampleRecipes))
                     |-> IF i \in DOMAIN recipes THEN recipes[i]
                         ELSE SampleRecipes[i - recipe_seq]]
    /\ recipe_seq' = recipe_seq + Len(SampleRecipes)
    /\ op' = [name |-> "init_db"]
    /\ ret' = None
    /\ UNCHANGED <<other_tables, ui>>

\* init_db(): CREATE TABLE IF NOT EXISTS keeps the tables, and
\* insert_sample_recipes_if_empty() returns when recipes has a row
init_db ==
    /\ IF Cardinality(DOMAIN recipes) > 0
       THEN UNCHANGED <<recipes, recipe_seq>>
       ELSE /\ recipes' = [i \in (recipe_seq + 1)..(recipe_seq + Len(SampleRecipes))
                             |-> SampleRecipes[i - recipe_seq]]
            /\ recipe_seq' = recipe_seq + Len(SampleRecipes)
    /\ op' = [name |-> "init_db"]
    /\ ret' = None
    /\ UNCHANGED <<other_tables, ui>>

\* UPDATE recipes SET is_favorite = ? WHERE id = ?
set_favorite(recipe_id, is_favorite) ==
    /\ recipes' = [i \in DOMAIN recipes |->
                     IF i = recipe_id
                     THEN [recipes[i] EXCEPT
                             !.is_favorite = IF is_favorite THEN 1 ELSE 0]
                     ELSE recipes[i]]
    /\ op' = [name |-> "set_favorite", arg |-> recipe_id]
    /\ ret' = None
    /\ UNCHANGED <<recipe_seq, other_tables, ui>>

\* the grocery table as a value: its rows and its AUTOINCREMENT counter
grocery == [items |-> grocery_items, seq |-> grocery_seq]

\* the insert keeping the case of the name
insert_grocery_case_kept(g, name) ==
    IF name = <<>> THEN g
    ELSE [items |-> [i \in DOMAIN g.items \cup {g.seq + 1} |->
                       IF i = g.seq + 1
                       THEN [name |-> strip(name), is_checked |-> 0]
                       ELSE g.items[i]],
          seq |-> g.seq + 1]

\* the body of add_grocery_item(name) on the table g: nothing for an empty
\* name, else INSERT (name.strip().lower(), 0) under the next id
insert_grocery(g, name) ==
    IF name = <<>> THEN g
    ELSE [items |-> [i \in DOMAIN g.items \cup {g.seq + 1} |->
                       IF i = g.seq + 1
                       THEN [name |-> lower(strip(name)), is_checked |-> 0]
                       ELSE g.items[i]],
          seq |-> g.seq + 1]

add_grocery_item(name) ==
    /\ LET g == insert_grocery(grocery, name)
       IN  /\ g.seq <= MaxGroceryId
           /\ grocery_items' = g.items
           /\ grocery_seq' = g.seq
    /\ op' = [name |-> "add_grocery_item", arg |-> name]
    /\ ret' = None
    /\ UNCHANGED <<recipes, recipe_seq, pantry_items, recipe_notes, ui>>

\* the delete of every row that bears the name of the row item_id
remove_grocery_item_by_name(item_id) ==
    /\ grocery_items' =
          [i \in {j \in DOMAIN grocery_items :
                    \/ item_id \notin DOMAIN grocery_items
                    \/ grocery_items[j].name # grocery_items[item_id].name}
             |-> grocery_items[i]]
    /\ op' = [name |-> "remove_grocery_item", arg |-> item_id]
    /\ ret' = None
    /\ UNCHANGED <<recipes, recipe_seq, pantry_items, grocery_seq,
                   recipe_notes, ui>>

\* DELETE FROM grocery_items WHERE id = ?
remove_grocery_item(item_id) ==
    /\ grocery_items' = [i \in DOMAIN grocery_items \ {item_id} |->
                           grocery_items[i]]
    /\ op' = [name |-> "remove_grocery_item", arg |-> item_id]
    /\ ret' = None
    /\ UNCHANGED <<recipes, recipe_seq, pantry_items, grocery_seq,
                   recipe_notes, ui>>

\* DELETE FROM grocery_items; the AUTOINCREMENT counter is kept
clear_grocery ==
    /\ grocery_items' = << >>
    /\ op' = [name |-> "clear_grocery"]
    /\ ret' = None
    /\ UNCHANGED <<recipes, recipe_seq, pantry_items, grocery_seq,
                   recipe_notes, ui>>

\* UPDATE grocery_items SET is_checked = ? WHERE id = ?
set_grocery_checked(item_id, checked) ==
    /\ grocery_items' = [i \in DOMAIN grocery_items |->
                           IF i = item_id
                           THEN [grocery_items[i] EXCEPT
                                   !.is_checked = IF checked THEN 1 ELSE 0]
                           ELSE grocery_items[i]]
    /\ op' = [name |-> "set_grocery_checked", arg |-> item_id,
              checked |-> checked]
    /\ ret' = None
    /\ UNCHANGED <<recipes, recipe_seq, pantry_items, grocery_seq,
                   recipe_notes, ui>>

\* the loop leaving out the names the list already holds
RECURSIVE add_each_skipping_listed(_, _)
add_each_skipping_listed(g, missing) ==
    IF missing = <<>> THEN g
    ELSE add_each_skipping_listed(
            IF \E i \in DOMAIN g.items : g.items[i].name = Head(missing)
            THEN g ELSE insert_grocery(g, Head(missing)),
            Tail(missing))

\* the loop  for m in missing: add_grocery_item(m)
RECURSIVE add_each(_, _)
add_each(g, missing) ==
    IF missing = <<>> THEN g
    ELSE add_each(insert_grocery(g, Head(missing)), Tail(missing))

add_missing_to_grocery(recipe_id) ==
    /\ LET missing == compute_missing_ingredients(recipe_id)
           g == add_each(grocery, missing)
       IN  /\ g.seq <= MaxGroceryId
           /\ grocery_items' = g.items
           /\ grocery_seq' = g.seq
           /\ ret' = missing
    /\ op' = [name |-> "add_missing_to_grocery", arg |-> recipe_id]
    /\ UNCHANGED <<recipes, recipe_seq, pantry_items, recipe_notes, ui>>

\* SELECT notes_text FROM recipe_notes WHERE recipe_id = ?;
\* return row[0] if row and row[0] else ""
get_recipe_notes(recipe_id) ==
    IF recipe_id \in DOMAIN recipe_notes /\ recipe_notes[recipe_id] # <<>>
    THEN recipe_notes[recipe_id]
    ELSE <<>>

\* a call of get_recipe_notes(recipe_id)
get_recipe_notes_call(recipe_id) ==
    /\ op' = [name |-> "get_recipe_notes", arg |-> recipe_id]
    /\ ret' = get_recipe_notes(recipe_id)
    /\ UNCHANGED <<tables, ui>>

\* the insert ignored when the recipe already has notes
set_recipe_notes_or_ignore(recipe_id, notes_text) ==
    /\ recipe_notes' = [i \in DOMAIN recipe_notes \cup {recipe_id} |->
                          IF i \in DOMAIN recipe_notes THEN recipe_notes[i]
                          ELSE notes_text]
    /\ op' = [name |-> "set_recipe_notes", arg |-> recipe_id,
              text |-> notes_text]
    /\ ret' = None
    /\ UNCHANGED <<recipes, recipe_seq, pantry_items, grocery_items,
                   grocery_seq, ui>>

\* INSERT INTO recipe_notes ... ON CONFLICT(recipe_id) DO UPDATE SET
\* notes_text = excluded.notes_text
set_recipe_notes(recipe_id, notes_text) ==
    /\ recipe_notes' = [i \in DOMAIN recipe_notes \cup {recipe_id} |->
                          IF i = recipe_id THEN notes_text
                          ELSE recipe_notes[i]]
    /\ op' = [name |-> "set_recipe_notes", arg |-> recipe_id,
              text |-> notes_text]
    /\ ret' = None
    /\ UNCHANGED <<recipes, recipe_seq, pantry_items, grocery_items,
                   grocery_seq, ui>>

\* recipes matched against the pantry
Next ==
    \/ \E title \in TitleInputs, text \in RecipeTexts :
          add_recipe(title, text, <<>>, {})
    \/ \E name \in KeyNames : add_pantry_item(name)
    \/ \E name \in KeyNames : remove_pantry_item(name)
    \/ \E recipe_id \in 1..(Len(SampleRecipes) + MaxAdded + 1) :
          compute_missing_ingredients_call(recipe_id)

Spec == Init /\ [][Next]_vars

\* the pantry alone, with names of any shape
NextPantry ==
    \/ \E name \in NameInputs : add_pantry_item(name)
    \/ \E name \in NameInputs : remove_pantry_item(name)

SpecPantry == Init /\ [][NextPantry]_vars

\* the grocery list, filled by hand and from the missing ingredients
GroceryTexts ==
    {<<"\t","A",";","\n","a"," ","F","l","o","u","r","\n","(","a",")","\n">>}

GroceryNames == {<<>>, <<" ","A"," ">>}

PantryNames == {<<"a">>}

\* the ids of the recipes added to the samples, and one id never handed out
AddedIds == (Len(SampleRecipes) + 1)..(Len(SampleRecipes) + MaxAdded + 1)

NextGrocery ==
    \/ \E title \in TitleInputs, text \in GroceryTexts :
          add_recipe(title, text, <<>>, {})
    \/ \E name \in PantryNames : add_pantry_item(name)
    \/ \E name \in GroceryNames : add_grocery_item(name)
    \/ \E item_id \in 1..MaxGroceryId : remove_grocery_item(item_id)
    \/ clear_grocery
    \/ \E item_id \in 1..MaxGroceryId, checked \in BOOLEAN :
          set_grocery_checked(item_id, checked)
    \/ \E recipe_id \in AddedIds : add_missing_to_grocery(recipe_id)

SpecGrocery == Init /\ [][NextGrocery]_vars

\* the notes of the recipes
NoteTexts == {<<>>, <<"o","k">>, <<"n","o"," ">>}

NoteIds == {1, 2, Len(SampleRecipes) + 1}

NextNotes ==
    \/ \E recipe_id \in NoteIds, text \in NoteTexts :
          set_recipe_notes(recipe_id, text)
    \/ \E recipe_id \in NoteIds : get_recipe_notes_call(recipe_id)

SpecNotes == Init /\ [][NextNotes]_vars

\* the pantry and the grocery list, with names that are blank
BlankNames == {<<>>, <<" ">>, <<"\t"," ">>, <<" ","A"," ">>, <<"b">>}

NextNames ==
    \/ \E name \in BlankNames : add_pantry_item(name)
    \/ \E name \in BlankNames : remove_pantry_item(name)
    \/ \E name \in BlankNames : add_grocery_item(name)
    \/ \E item_id \in 1..MaxGroceryId : remove_grocery_item(item_id)
    \/ clear_grocery

SpecNames == Init /\ [][NextNames]_vars

\* the insert made into an empty pantry only
pantry_with_if_empty(pantry, name) ==
    IF name = <<>> \/ pantry # {} THEN pantry
    ELSE pantry \cup {lower(strip(name))}

\* the body of add_pantry_item(name) on the pantry given
pantry_with(pantry, name) ==
    IF name = <<>> THEN pantry ELSE pantry \cup {lower(strip(name))}

\* add_pantry_item(k) for every k of names, in their order
RECURSIVE add_pantry_each(_, _)
add_pantry_each(pantry, names) ==
    IF names = <<>> THEN pantry
    ELSE add_pantry_each(pantry_with(pantry, Head(names)), Tail(names))

\* compute_missing_ingredients(recipe_id), add_pantry_item(k) for every key
\* k it returned, and compute_missing_ingredients(recipe_id) again; missing
\* is the first result and ret the second
fill_pantry_call(recipe_id) ==
    /\ \E missing \in {compute_missing_ingredients(recipe_id)} :
          \E filled \in {add_pantry_each(pantry_items, missing)} :
             /\ Cardinality(filled) <= MaxPantry
             /\ pantry_items' = filled
             /\ op' = [name |-> "fill_pantry", arg |-> recipe_id,
                       missing |-> missing]
             /\ ret' = LET recipe == get_recipe(recipe_id)
                       IN  IF recipe = None THEN <<>>
                           ELSE unique_missing(
                                    keys_of(ingredients_lines(recipe)), filled)
    /\ UNCHANGED <<not_pantry, ui>>

\* the pantry filled with what a recipe misses
FillTexts ==
    {<<"3"," ","t","b","s","p"," ","S","u","g","a","r",".","\n","1"," ","t",
       "b","s","p"," ","s","u","g","a","r">>,
     <<"\t","A",";","\n","a"," ","F","l","o","u","r","\n","(","a",")","\n">>,
     <<"2"," ","E","g","g","s",",","\n","M","i","l","k"," ","(","1",")">>}

FillNames == {<<"a">>, <<"E","g","g","s"," ">>, <<"t","e","a">>}

NextFill ==
    \/ \E title \in TitleInputs, text \in FillTexts :
          add_recipe(title, text, <<>>, {})
    \/ \E name \in FillNames : add_pantry_item(name)
    \/ \E name \in FillNames : remove_pantry_item(name)
    \/ \E recipe_id \in AddedIds : fill_pantry_call(recipe_id)

SpecFill == Init /\ [][NextFill]_vars

\* the database from its first init_db() on.  Before that call there is no
\* table, which is the state of four empty tables in which only init_db()
\* is called.
InitFresh ==
    /\ recipes = << >>
    /\ recipe_seq = 0
    /\ pantry_items = {}
    /\ grocery_items = << >>
    /\ grocery_seq = 0
    /\ recipe_notes = << >>
    /\ ui = None
    /\ op = [name |-> "import db"]
    /\ ret = None

Created == op.name # "import db"

NextInit ==
    \/ init_db
    \/ /\ Created
       /\ \E title \in TitleInputs, text \in GroceryTexts :
             add_recipe(title, text, <<>>, {})
    \/ /\ Created
       /\ \E recipe_id \in {1, Len(SampleRecipes) + 1}, is_favorite \in BOOLEAN :
             set_favorite(recipe_id, is_favorite)
    \/ Created /\ \E name \in PantryNames : add_pantry_item(name)
    \/ Created /\ \E name \in PantryNames : add_grocery_item(name)
    \/ Created /\ clear_grocery
    \/ Created /\ set_recipe_notes(1, <<"o","k">>)

SpecInit == InitFresh /\ [][NextInit]_vars

\* every call that writes a table, next to the reads
NextDb ==
    \/ init_db
    \/ \E title \in TitleInputs, text \in GroceryTexts :
          add_recipe(title, text, <<>>, {})
    \/ \E recipe_id \in AddedIds, is_favorite \in BOOLEAN :
          set_favorite(recipe_id, is_favorite)
    \/ \E name \in PantryNames : add_pantry_item(name)
    \/ \E name \in PantryNames : remove_pantry_item(name)
    \/ \E name \in GroceryNames : add_grocery_item(name)
    \/ remove_grocery_item(1)
    \/ set_grocery_checked(2, TRUE)
    \/ clear_grocery
    \/ \E recipe_id \in AddedIds : add_missing_to_grocery(recipe_id)
    \/ \E recipe_id \in AddedIds : compute_missing_ingredients_call(recipe_id)
    \/ set_recipe_notes(Len(SampleRecipes) + 1, <<"o","k">>)
    \/ get_recipe_notes_call(Len(SampleRecipes) + 1)

SpecDb == Init /\ [][NextDb]_vars

(***************************************************************************)
(* The recipes page of HomeChefWindow (ui_pyqt6.py) over list_recipes.     *)
(* A dict is a record of its keys; a JSON reply is None or a record with   *)
(* its kind, a dict reply listing its keys.                                *)
(***************************************************************************)
\* the characters in the order of their UTF-8 encoding, the order in which
\* SQLite compares TEXT (all of ASCII that a string here can hold)
CodeOrder ==
    <<"\t","\n","\f","\r"," ","!","\"","#","$","%","&","'","(",")","*","+",
      ",","-",".","/","0","1","2","3","4","5","6","7","8","9",":",";","<",
      "=",">","?","@","A","B","C","D","E","F","G","H","I","J","K","L","M",
      "N","O","P","Q","R","S","T","U","V","W","X","Y","Z","[","\\","]","^",
      "_","a","b","c","d","e","f","g","h","i","j","k","l","m","n","o",
      "p","q","r","s","t","u","v","w","x","y","z","{","|","}","~","é">>

code(c) == CHOOSE i \in 1..Len(CodeOrder) : CodeOrder[i] = c

\* a < b for two TEXT values
RECURSIVE less(_, _)
less(a, b) ==
    IF b = <<>> THEN FALSE
    ELSE IF a = <<>> THEN TRUE
    ELSE IF Head(a) = Head(b) THEN less(Tail(a), Tail(b))
    ELSE code(Head(a)) < code(Head(b))

\* the positions of text that follow a position of starts (pattern
\* character %), or that follow one by a character matching c: _ stands for
\* any character, and letters match whatever their case
like_step(c, text, starts) ==
    IF c = "%"
    THEN {j \in 0..Len(text) : \E s \in starts : s <= j}
    ELSE {s + 1 : s \in {t \in starts :
                           /\ t < Len(text)
                           /\ \/ c = "_"
                              \/ lower_char(c) = lower_char(text[t + 1])}}

\* the positions of text at which a match of pattern can end when it
\* starts at one of the positions starts
RECURSIVE like_ends(_, _, _)
like_ends(pattern, text, starts) ==
    IF pattern = <<>> THEN starts
    ELSE CHOOSE ends \in {like_ends(rest, text, next) :
                            rest \in {Tail(pattern)},
                            next \in {like_step(Head(pattern), text, starts)}}
              : TRUE

\* text LIKE pattern
like_match(pattern, text) ==
    \E p \in {pattern}, t \in {text} : Len(t) \in like_ends(p, t, {0})

\* dict(r) of the row id
row_dict(id) ==
    [id |-> id,
     title |-> recipes[id].title,
     ingredients_text |-> recipes[id].ingredients_text,
     steps_text |-> recipes[id].steps_text,
     cook_time |-> recipes[id].cook_time,
     is_favorite |-> recipes[id].is_favorite]

\* the rows ids ORDER BY title ASC, rows of one title in the order of the
\* table
RECURSIVE order_by_title(_)
order_by_title(ids) ==
    IF ids = {} THEN <<>>
    ELSE LET first == CHOOSE i \in ids : \A j \in ids \ {i} :
                        \/ less(recipes[i].title, recipes[j].title)
                        \/ recipes[i].title = recipes[j].title /\ i < j
         IN  <<row_dict(first)>> \o order_by_title(ids \ {first})

\* list_recipes(search); the test  if search:  takes None and "" alike, so
\* that None is passed as the empty string
list_recipes(search) ==
    LET like == <<"%">> \o lower(search) \o <<"%">>
    IN  order_by_title(
          {i \in DOMAIN recipes :
             \/ search = <<>>
             \/ like_match(like, lower(recipes[i].title))
             \/ like_match(like, lower(recipes[i].ingredients_text))})

\* list_recipes(search) called on the module
list_recipes_call(search) ==
    /\ op' = [name |-> "list_recipes", arg |-> search]
    /\ ret' = list_recipes(search)
    /\ UNCHANGED <<tables, ui>>

\* list_favorites(): WHERE is_favorite = 1 ORDER BY title ASC
list_favorites ==
    order_by_title({i \in DOMAIN recipes : recipes[i].is_favorite = 1})

\* q in text  of two Python strings
str_in(q, text) ==
    \E k \in 0..(Len(text) - Len(q)) : SubSeq(text, k + 1, k + Len(q)) = q

DecimalDigits == <<"0","1","2","3","4","5","6","7","8","9">>

\* int(token) of a token of digits
RECURSIVE int_of(_)
int_of(token) ==
    IF token = <<>> THEN 0
    ELSE 10 * int_of(SubSeq(token, 1, Len(token) - 1))
         + (CHOOSE d \in 0..9 : DecimalDigits[d + 1] = token[Len(token)])

\* the items of the combo box time_filter
TimeItems ==
    <<<<"0"," ","m","i","n">>, <<"1","5"," ","m","i","n">>,
      <<"3","0"," ","m","i","n">>, <<"4","5"," ","m","i","n">>,
      <<"6","0"," ","m","i","n">>>>

\* the recipe shown when the local result is empty
SampleCard ==
    [id |-> 1,
     name |-> <<"P","a","n","c","a","k","e","s">>,
     ingredients |-> <<"F","l","o","u","r",","," ","E","g","g","s",","," ",
                       "M","i","l","k">>,
     cook_time |-> {20},
     difficulty |-> <<"E","a","s","y">>,
     image |-> <<"p","l","a","c","e","h","o","l","d","e","r","_","i","m",
                 "a","g","e">>]

\* x or 0 of an Optional[int]
or0(x) == IF x = {} THEN 0 ELSE CHOOSE n \in x : TRUE

\* int((currentText() or "0").split()[0]), 0 when that raises
_selected_time(w) ==
    LET toks == split(IF w.time_filter = <<>> THEN <<"0">> ELSE w.time_filter)
    IN  IF toks # <<>> /\ isdigit(toks[1]) THEN int_of(toks[1]) ELSE 0

\* the truth value of what _get returns
Truthy(data) ==
    /\ data # None
    /\ data.kind = "dict" => data.keys # {}
    /\ data.kind = "list" => data.items # <<>>

\* lines 315-317: the recipes of the local database
local_recipes(w) ==
    LET search == strip(w.search_box)
        max_time == _selected_time(w)
    IN  IF max_time # 0
        THEN SelectSeq(list_recipes(search),
                       LAMBDA r : or0(r.cook_time) <= max_time)
        ELSE list_recipes(search)

\* the sample shown whenever the request fails
always_sample(local) == <<SampleCard>>

\* lines 318-326: the sample when there is no recipe
or_sample(local) == IF local = <<>> THEN <<SampleCard>> ELSE local

\* lines 312-329: the recipes taken for rendering when _get returns data
\* and the local database holds the recipes local
taken(data, local) ==
    IF ~Truthy(data) THEN or_sample(local)
    ELSE IF data.kind = "dict" /\ "recipes" \in data.keys THEN data.recipes
    ELSE <<>>

\* lines 330-332: the cards of the recipes, of the favorites when the box
\* is checked
cards_of(w, rendered) ==
    IF w.fav_only
    THEN SelectSeq(rendered, LAMBDA r : /\ "is_favorite" \in DOMAIN r
                                        /\ r.is_favorite = 1)
    ELSE rendered

\* a recipe of the API
ApiRecipe ==
    [id |-> 7,
     title |-> <<"S","o","u","p">>,
     steps |-> <<"B","o","i","l","\n"," ","\n","S","e","r","v","e"," ">>,
     is_favorite |-> 1]

\* what _get returns: None when the request raises or is not ok, else the
\* JSON of the reply
ApiReplies ==
    <<None,
      [kind |-> "dict", keys |-> {}],
      [kind |-> "list", items |-> <<>>],
      [kind |-> "dict", keys |-> {"recipes"}, recipes |-> <<ApiRecipe>>],
      [kind |-> "dict", keys |-> {"detail"},
       detail |-> <<"N","o","t"," ","F","o","u","n","d">>],
      [kind |-> "list", items |-> <<1>>]>>

\* _load_recipes_page() of the window w, whatever _get returns
_load_recipes_page(w) ==
    /\ \E local \in {local_recipes(w)}, k \in DOMAIN ApiReplies :
          \E rs \in {taken(ApiReplies[k], local)} :
             /\ ui' = [w EXCEPT !.cards = cards_of(w, rs)]
             /\ op' = [name |-> "_load_recipes_page", data |-> ApiReplies[k],
                       taken |-> rs]
    /\ ret' = None

\* the fields of a HomeChefWindow before __init__ loads the page
NewWindow ==
    [class |-> "HomeChefWindow",
     search_box |-> <<>>,
     time_filter |-> TimeItems[1],
     fav_only |-> FALSE,
     cards |-> <<>>,
     selected_recipe |-> None,
     _cook_steps |-> <<>>,
     _cook_index |-> 0,
     chat_input |-> <<>>,
     chat_history |-> <<>>,
     grocery_list |-> <<>>]

IsWindow == "class" \in DOMAIN ui /\ ui.class = "HomeChefWindow"

\* the user types into the search box
search_box_setText(text) ==
    /\ IsWindow
    /\ ui' = [ui EXCEPT !.search_box = text]
    /\ op' = [name |-> "search_box.setText"]
    /\ ret' = None
    /\ UNCHANGED tables

\* search_box.returnPressed
search_box_returnPressed ==
    /\ IsWindow
    /\ _load_recipes_page(ui)
    /\ UNCHANGED tables

\* time_filter.currentIndexChanged to the item i
time_filter_currentIndexChanged(i) ==
    /\ IsWindow
    /\ ui.time_filter # TimeItems[i]
    /\ _load_recipes_page([ui EXCEPT !.time_filter = TimeItems[i]])
    /\ UNCHANGED tables

\* fav_only.stateChanged
fav_only_stateChanged ==
    /\ IsWindow
    /\ _load_recipes_page([ui EXCEPT !.fav_only = ~ui.fav_only])
    /\ UNCHANGED tables

\* the recipes page while the database changes under it
TimeChoices == {1, 2, 5}

SearchInputs == {<<>>, <<" ","E","G","G"," ">>, <<"z","z">>}

\* the rows init_db() leaves, as list_recipes() returns them
SampleRows ==
    LET row(i) == [id |-> i,
                   title |-> SampleRecipes[i].title,
                   ingredients_text |-> SampleRecipes[i].ingredients_text,
                   steps_text |-> SampleRecipes[i].steps_text,
                   cook_time |-> SampleRecipes[i].cook_time,
                   is_favorite |-> SampleRecipes[i].is_favorite]
    IN  <<row(2), row(1), row(3)>>

\* HomeChefWindow(): init_db(), the fields, and the first load of the page
InitPage ==
    /\ recipes = [i \in 1..Len(SampleRecipes) |-> SampleRecipes[i]]
    /\ recipe_seq = Len(SampleRecipes)
    /\ pantry_items = {}
    /\ grocery_items = << >>
    /\ grocery_seq = 0
    /\ recipe_notes = << >>
    /\ \E k \in DOMAIN ApiReplies :
          /\ ui = [NewWindow EXCEPT
                     !.cards = cards_of(NewWindow,
                                        taken(ApiReplies[k], SampleRows))]
          /\ op = [name |-> "_load_recipes_page", data |-> ApiReplies[k],
                   taken |-> taken(ApiReplies[k], SampleRows)]
    /\ ret = None

NextPage ==
    \/ \E text \in SearchInputs : search_box_setText(text)
    \/ search_box_returnPressed
    \/ \E i \in TimeChoices : time_filter_currentIndexChanged(i)
    \/ fav_only_stateChanged
    \/ \E is_favorite \in BOOLEAN : set_favorite(2, is_favorite)
    \/ \E title \in TitleInputs, text \in GroceryTexts, cook_time \in {{}, {30}} :
          add_recipe(title, text, <<>>, cook_time)

SpecPage == InitPage /\ [][NextPage]_vars

(***************************************************************************)
(* ai.suggest_recipes_from_ingredients.  The completion of the remote      *)
(* model is an input: the request raises, or message.content is None or    *)
(* any text.                                                               *)
(***************************************************************************)
\* the values json.loads returns: null, numbers, strings, lists, and dicts
\* written [kind |-> "dict", keys |-> the keys] with one field per key
JNull == [kind |-> "null"]

JBool(b) == [kind |-> "bool", value |-> b]

JInt(n) == [kind |-> "int", value |-> n]

JStr(s) == [kind |-> "str", value |-> s]

JList(items) == [kind |-> "list", items |-> items]

\* a call that ends with the exception e
Raised(e) == [raised |-> e]

\* json.loads on the texts the model is taken to answer with
JsonTexts ==
    <<[content |-> <<"{","}">>,
       value |-> [kind |-> "dict", keys |-> {}]],
      [content |-> <<"S","o","r","r","y",","," ","n","o"," ","i","d","e","a",".">>,
       value |-> Raised("JSONDecodeError")],
      [content |-> <<"{","\"","m","a","t","c","h","e","s","\"",":"," ","[","\"","V",
             "e","g","g","i","e"," ","O","m","e","l","e","t","t","e","\"",
             ","," ","\"","N","a","c","h","o","s","\"",","," ","\"","T","e",
             "a","\"","]","}">>,
       value |-> [kind |-> "dict", keys |-> {"matches"},
                 matches |-> JList(<<JStr(<<"V","e","g","g","i","e"," ","O","m","e","l","e",
                          "t","t","e">>),
                                     JStr(<<"N","a","c","h","o","s">>),
                                     JStr(<<"T","e","a">>)>>)]],
      [content |-> <<"{","\"","m","a","t","c","h","e","s","\"",":"," ","[","\"","S",
             "i","m","p","l","e"," ","C","r","e","p","e","s","\"","]",",",
             " ","\"","c","r","e","a","t","i","v","e","_","s","u","g","g",
             "e","s","t","i","o","n","s","\"",":"," ","[","\"","S","o","u",
             "p","\"","]",","," ","\"","s","u","b","s","t","i","t","u","t",
             "i","o","n","s","\"",":"," ","{","\"","m","i","l","k","\"",":",
             " ","\"","w","a","t","e","r","\"","}","}">>,
       value |-> [kind |-> "dict",
                 keys |-> {"matches", "creative_suggestions", "substitutions"},
                 matches |-> JList(<<JStr(<<"S","i","m","p","l","e"," ","C","r","e","p","e",
                          "s">>)>>),
                 creative_suggestions |-> JList(<<JStr(<<"S","o","u","p">>)>>),
                 substitutions |->
                     [kind |-> "dict", keys |-> {"milk"},
                      milk |-> JStr(<<"w","a","t","e","r">>)]]],
      [content |-> <<"{","\"","m","a","t","c","h","e","s","\"",":"," ","n","u","l",
             "l",","," ","\"","s","u","b","s","t","i","t","u","t","i","o",
             "n","s","\"",":"," ","[","]","}">>,
       value |-> [kind |-> "dict", keys |-> {"matches", "substitutions"},
                 matches |-> JNull, substitutions |-> JList(<<>>)]],
      [content |-> <<"{","\"","m","a","t","c","h","e","s","\"",":"," ","\"","T","e",
             "a","\"","}">>,
       value |-> [kind |-> "dict", keys |-> {"matches"},
                 matches |-> JStr(<<"T","e","a">>)]],
      [content |-> <<"{","\"","m","a","t","c","h","e","s","\"",":"," ","3","}">>,
       value |-> [kind |-> "dict", keys |-> {"matches"}, matches |-> JInt(3)]],
      [content |-> <<"{","\"","m","a","t","c","h","e","s","\"",":"," ","0","}">>,
       value |-> [kind |-> "dict", keys |-> {"matches"}, matches |-> JInt(0)]],
      [content |-> <<"{","\"","m","a","t","c","h","e","s","\"",":"," ","t","r","u",
             "e","}">>,
       value |-> [kind |-> "dict", keys |-> {"matches"},
                 matches |-> JBool(TRUE)]],
      [content |-> <<"{","\"","m","a","t","c","h","e","s","\"",":"," ","[","1",",",
             " ","n","u","l","l",","," ","\"","T","e","a","\"","]","}">>,
       value |-> [kind |-> "dict", keys |-> {"matches"},
                 matches |-> JList(<<JInt(1), JNull, JStr(<<"T","e","a">>)>>)]],
      [content |-> <<"{","\"","m","a","t","c","h","e","s","\"",":"," ","[","[","\"",
             "T","e","a","\"","]","]","}">>,
       value |-> [kind |-> "dict", keys |-> {"matches"},
                 matches |-> JList(<<JList(<<JStr(<<"T","e","a">>)>>)>>)]],
      [content |-> <<"[","]">>,
       value |-> JList(<<>>)],
      [content |-> <<"[","\"","T","e","a","\"","]">>,
       value |-> JList(<<JStr(<<"T","e","a">>)>>)],
      [content |-> <<"n","u","l","l">>,
       value |-> JNull],
      [content |-> <<"3">>,
       value |-> JInt(3)],
      [content |-> <<"\"","T","e","a","\"">>,
       value |-> JStr(<<"T","e","a">>)]>>

json_loads(content) ==
    LET k == CHOOSE k \in DOMAIN JsonTexts : JsonTexts[k].content = content
    IN  JsonTexts[k].value

\* message.content is Optional[str]: {} is None and {s} is the text s
Contents ==
    {{}, {<<>>}} \cup {{JsonTexts[k].content} : k \in DOMAIN JsonTexts}

\* what client.chat.completions.create does: it raises or it returns a
\* completion with a content
Completions ==
    {Raised("APIConnectionError")} \cup {[content |-> c] : c \in Contents}

\* line 57: completion.choices[0].message.content or "{}"
or_braces(content) ==
    IF content = {} \/ content = {<<>>} THEN <<"{", "}">>
    ELSE CHOOSE s \in content : TRUE

\* line 63
Defaults ==
    [kind |-> "dict",
     keys |-> {"matches", "creative_suggestions", "substitutions"},
     matches |-> JList(<<>>),
     creative_suggestions |-> JList(<<>>),
     substitutions |-> [kind |-> "dict", keys |-> {}]]

\* lines 58-63: the parsed content, the defaults when json.loads raises
loaded(content) ==
    LET v == json_loads(or_braces(content))
    IN  IF "raised" \in DOMAIN v THEN Defaults ELSE v

\* the values Python takes for false
falsy(v) ==
    \/ v.kind = "null"
    \/ v.kind = "bool" /\ ~v.value
    \/ v.kind = "int" /\ v.value = 0
    \/ v.kind = "str" /\ v.value = <<>>
    \/ v.kind = "list" /\ v.items = <<>>
    \/ v.kind = "dict" /\ v.keys = {}

\* data.get(key, default) or default, for a dict data
get_or(data, key, default) ==
    LET v == IF key \in data.keys THEN data[key] ELSE default
    IN  IF falsy(v) THEN default ELSE v

\* what a for loop over v visits: the items of a list, the characters of a
\* string (a dict, visited by its keys, is under "matches" in none of the
\* contents above)
elements(v) ==
    CASE v.kind = "list" -> v.items
      [] v.kind = "str" -> [k \in 1..Len(v.value) |-> JStr(<<v.value[k]>>)]

\* a value that may be a key of a dict
hashable(t) == t.kind \notin {"list", "dict"}

\* line 66, 69: title_to_id.get(t), {} for None; of the rows of one title
\* the dict keeps the last
title_to_id(rows, t) ==
    IF t.kind # "str" THEN {}
    ELSE LET at == {k \in DOMAIN rows : rows[k].title = t.value}
         IN  IF at = {} THEN {}
             ELSE {rows[CHOOSE k \in at : \A j \in at : j <= k].id}

\* lines 67-71
match_ids(rows, ts) ==
    LET found == SelectSeq(ts, LAMBDA t : title_to_id(rows, t) # {})
    IN  [k \in DOMAIN found |-> CHOOSE rid \in title_to_id(rows, found[k]) : TRUE]

\* lines 57-77 of suggest_recipes_from_ingredients(ingredients, rows) once
\* the completion has the given content: the dict returned or the exception
\* raised.  data.get on a value that is no dict raises AttributeError, a for
\* loop over a number or True raises TypeError, and so does a list taken as
\* the key of title_to_id.
suggest_recipes_from_ingredients(rows, content) ==
    LET data == loaded(content)
    IN  IF data.kind # "dict" THEN Raised("AttributeError")
        ELSE LET ms == get_or(data, "matches", JList(<<>>))
             IN  IF ms.kind \notin {"list", "str", "dict"}
                 THEN Raised("TypeError")
                 ELSE IF \E k \in DOMAIN elements(ms) : ~hashable(elements(ms)[k])
                 THEN Raised("TypeError")
                 ELSE [matches |-> match_ids(rows, elements(ms)),
                       creative_suggestions |->
                           get_or(data, "creative_suggestions", JList(<<>>)),
                       substitutions |->
                           get_or(data, "substitutions",
                                  [kind |-> "dict", keys |-> {}])]

\* HomeChefWidget._ai_suggest calls it with db.list_recipes(); an exception
\* of the request (line 48) leaves the function as it is
suggest_recipes_from_ingredients_call(ingredients) ==
    /\ \E completion \in Completions, rows \in {list_recipes(<<>>)} :
          /\ op' = [name |-> "suggest_recipes_from_ingredients",
                    ingredients |-> ingredients,
                    local_recipes |-> rows,
                    completion |-> completion]
          /\ ret' = IF "raised" \in DOMAIN completion THEN completion
                    ELSE suggest_recipes_from_ingredients(rows,
                                                          completion.content)
    /\ UNCHANGED <<tables, ui>>

\* the ingredients typed and the titles of the recipes added
IngredientLists == {<<>>, <<<<"e","g","g","s">>, <<"m","i","l","k">>>>}

SuggestTitles == {<<" ","T","e","a">>, <<"V","e","g","g","i","e"," ","O","m","e","l","e","t","t",
                   "e">>}

NextSuggest ==
    \/ \E title \in SuggestTitles, text \in GroceryTexts :
          add_recipe(title, text, <<>>, {})
    \/ \E ingredients \in IngredientLists :
          suggest_recipes_from_ingredients_call(ingredients)

SpecSuggest == Init /\ [][NextSuggest]_vars

(***************************************************************************)
(* Cooking mode and the chat, in HomeChefWindow (ui_pyqt6.py) and in       *)
(* HomeChefWidget (ui.py).  _cook_index counts from 0, so that the current *)
(* step is _cook_steps[_cook_index + 1].  An entry of chat_history is the  *)
(* role and the text _append_chat was called with.                         *)
(***************************************************************************)
MaxChat == 1        \* a message is sent while chat_history has fewer entries

IsWidget == "class" \in DOMAIN ui /\ ui.class = "HomeChefWidget"

\* [s.strip() for s in steps_raw.splitlines() if s.strip()]
steps_of(steps_raw) ==
    LET ls == splitlines(steps_raw)
    IN  SelectSeq([k \in DOMAIN ls |-> strip(ls[k])], LAMBDA s : s # <<>>)

\* r.get("steps_text") or r.get("steps") or ""
steps_text_or_steps(r) ==
    IF "steps_text" \in DOMAIN r /\ r.steps_text # <<>> THEN r.steps_text
    ELSE IF "steps" \in DOMAIN r /\ r.steps # <<>> THEN r.steps
    ELSE <<>>

\* f"Question about step: {step}"
Question(step) ==
    <<"Q","u","e","s","t","i","o","n"," ","a","b","o","u","t"," ","s","t",
      "e","p",":"," ">> \o step

\* _append_chat(role, text) on the history
_append_chat(history, role, text) ==
    Append(history, [role |-> role, text |-> text])

\* ---- HomeChefWindow ----
\* _on_recipe_selected(r)
_on_recipe_selected(r) ==
    /\ ui' = [ui EXCEPT !.selected_recipe = r,
                        !._cook_steps = steps_of(steps_text_or_steps(r)),
                        !._cook_index = 0]
    /\ op' = [name |-> "select"]
    /\ ret' = None
    /\ UNCHANGED tables

\* "View Details" on the card k
BtnView_clicked(k) ==
    /\ IsWindow
    /\ k \in DOMAIN ui.cards
    /\ _on_recipe_selected(ui.cards[k])

HomeChefWindow_prev_step ==
    /\ IsWindow
    /\ ui' = IF ui._cook_steps = <<>> THEN ui
             ELSE [ui EXCEPT !._cook_index =
                                IF @ - 1 > 0 THEN @ - 1 ELSE 0]
    /\ op' = [name |-> "_prev_step"]
    /\ ret' = None
    /\ UNCHANGED tables

HomeChefWindow_next_step ==
    /\ IsWindow
    /\ ui' = IF ui._cook_steps = <<>> THEN ui
             ELSE [ui EXCEPT !._cook_index =
                                IF @ + 1 < Len(ui._cook_steps) - 1
                                THEN @ + 1 ELSE Len(ui._cook_steps) - 1]
    /\ op' = [name |-> "_next_step"]
    /\ ret' = None
    /\ UNCHANGED tables

\* what _post("/chat", payload) returns: None when the request raises or is
\* not ok, else the JSON of the reply
ChatReplies ==
    <<None,
      [kind |-> "dict", keys |-> {"reply"}, reply |-> <<"O","k">>],
      [kind |-> "dict", keys |-> {"detail"},
       detail |-> <<"N","o","t"," ","F","o","u","n","d">>],
      [kind |-> "list", items |-> <<1>>]>>

Unavailable ==
    <<"[","N","e","t","w","o","r","k"," ","u","n","a","v","a","i","l","a",
      "b","l","e","]"," ","T","i","p",":"," ","p","r","e","h","e","a","t",
      " ","y","o","u","r"," ","p","a","n"," ","a","n","d"," ","t","a","s",
      "t","e"," ","a","s"," ","y","o","u"," ","g","o",".">>

\* line 442, for data that is None, empty or a dict; the text of None is
\* the one the f-string of _append_chat gives it
reply_text(data) ==
    IF ~Truthy(data) THEN Unavailable
    ELSE IF "reply" \in data.keys THEN data.reply
    ELSE <<"N","o","n","e">>

\* _send_chat() of the window w, called by the handler name; sent is the
\* message of the payload, {} when nothing is posted.  data.get raises on a
\* reply that is a list, after the message of the user was appended.
HomeChefWindow_send_chat(name, w) ==
    LET msg == strip(w.chat_input)
        said == [w EXCEPT !.chat_input = <<>>,
                          !.chat_history = _append_chat(@, "user", msg)]
    IN  IF msg = <<>>
        THEN /\ ui' = w
             /\ op' = [name |-> name, sent |-> {}]
             /\ ret' = None
        ELSE \E k \in DOMAIN ChatReplies :
                /\ op' = [name |-> name, sent |-> {msg}]
                /\ IF Truthy(ChatReplies[k]) /\ ChatReplies[k].kind # "dict"
                   THEN /\ ui' = said
                        /\ ret' = Raised("AttributeError")
                   ELSE /\ ui' = [said EXCEPT !.chat_history =
                                     _append_chat(@, "assistant",
                                                  reply_text(ChatReplies[k]))]
                        /\ ret' = None

\* the Send button
HomeChefWindow_send_clicked ==
    /\ IsWindow
    /\ Len(ui.chat_history) < MaxChat
    /\ HomeChefWindow_send_chat("_send_chat", ui)
    /\ UNCHANGED tables

\* "Ask AI about this Step"
HomeChefWindow_ask_ai_about_step ==
    /\ IsWindow
    /\ Len(ui.chat_history) < MaxChat
    /\ IF ui._cook_steps = <<>>
       THEN /\ ui' = ui
            /\ op' = [name |-> "_ask_ai_about_step", sent |-> {}]
            /\ ret' = None
       ELSE LET msg == Question(ui._cook_steps[ui._cook_index + 1])
            IN  HomeChefWindow_send_chat(
                    "_ask_ai_about_step",
                    [ui EXCEPT !.chat_history = _append_chat(@, "user", msg)])
    /\ UNCHANGED tables

\* ---- HomeChefWidget ----
\* the recipes _load_recipes() puts into recipe_list: the favorites
\* filtered in Python when "Favorites only" is checked, list_recipes(query)
\* otherwise.  The difficulty and time filters stay as constructed, "All"
\* and no limit, and keep every row.  Over the characters of the model
\* str.lower() and LOWER() agree.
loaded_recipes(w) ==
    LET query == strip(w.search_box)
        q == lower(query)
        keeps(r) == \/ str_in(q, lower(r.title))
                    \/ str_in(q, lower(r.ingredients_text))
    IN  IF w.fav_only
        THEN IF query # <<>> THEN SelectSeq(list_favorites, keeps)
             ELSE list_favorites
        ELSE list_recipes(query)

\* _load_recipes(), also the slot of search_box.returnPressed;
\* recipe_list.clear() leaves no item selected
HomeChefWidget_load_recipes ==
    /\ IsWidget
    /\ ui' = [ui EXCEPT !.recipe_list = loaded_recipes(ui), !.selected = 0]
    /\ op' = [name |-> "_load_recipes"]
    /\ ret' = None
    /\ UNCHANGED tables

\* _enter_cooking_mode(recipe) of a recipe that is not None
_enter_cooking_mode(w, recipe) ==
    [w EXCEPT !._cook_steps = steps_of(recipe.steps_text),
              !._cook_index = 0]

\* the fields of a HomeChefWidget before __init__ loads the recipes:
\* _build_ui ends with _enter_cooking_mode(None)
NewWidget ==
    [class |-> "HomeChefWidget",
     search_box |-> <<>>,
     fav_only |-> FALSE,
     recipe_list |-> <<>>,
     selected |-> 0,
     _cook_steps |-> <<>>,
     _cook_index |-> 0,
     chat_input |-> <<>>,
     chat_history |-> <<>>]

\* the user selects the item k of recipe_list: _on_select_recipe() and
\* _show_recipe(data)
_on_select_recipe(k) ==
    /\ IsWidget
    /\ k \in DOMAIN ui.recipe_list
    /\ k # ui.selected
    /\ ui' = _enter_cooking_mode([ui EXCEPT !.selected = k],
                                 ui.recipe_list[k])
    /\ op' = [name |-> "select"]
    /\ ret' = None
    /\ UNCHANGED tables

\* the index after Next Step without the bound of the last step
HomeChefWidget_next_step_unbounded ==
    /\ IsWidget
    /\ ui' = IF ui._cook_steps = <<>> THEN ui
             ELSE [ui EXCEPT !._cook_index = @ + 1]
    /\ op' = [name |-> "_next_step"]
    /\ ret' = None
    /\ UNCHANGED tables

HomeChefWidget_next_step ==
    /\ IsWidget
    /\ ui' = IF ui._cook_steps = <<>> THEN ui
             ELSE [ui EXCEPT !._cook_index =
                                IF @ + 1 < Len(ui._cook_steps) - 1
                                THEN @ + 1 ELSE Len(ui._cook_steps) - 1]
    /\ op' = [name |-> "_next_step"]
    /\ ret' = None
    /\ UNCHANGED tables

HomeChefWidget_prev_step ==
    /\ IsWidget
    /\ ui' = IF ui._cook_steps = <<>> THEN ui
             ELSE [ui EXCEPT !._cook_index =
                                IF @ - 1 > 0 THEN @ - 1 ELSE 0]
    /\ op' = [name |-> "_prev_step"]
    /\ ret' = None
    /\ UNCHANGED tables

\* what chatbot_reply returns: the content of the completion, "" for no
\* content, or the text of the exception
ChatbotReplies ==
    {<<"O","k">>, <<>>,
     <<"[","A","I"," ","e","r","r","o","r","]"," ","C","o","n","n","e","c",
       "t","i","o","n"," ","e","r","r","o","r",".">>}

\* _send_chat() of the widget w, called by the handler name
HomeChefWidget_send_chat(name, w) ==
    LET user_msg == strip(w.chat_input)
    IN  IF user_msg = <<>>
        THEN /\ ui' = w
             /\ op' = [name |-> name, sent |-> {}]
             /\ ret' = None
        ELSE \E reply \in ChatbotReplies :
                /\ ui' = [w EXCEPT
                            !.chat_history =
                                _append_chat(_append_chat(@, "user", user_msg),
                                             "assistant", reply),
                            !.chat_input = <<>>]
                /\ op' = [name |-> name, sent |-> {user_msg}]
                /\ ret' = None

HomeChefWidget_send_clicked ==
    /\ IsWidget
    /\ Len(ui.chat_history) < MaxChat
    /\ HomeChefWidget_send_chat("_send_chat", ui)
    /\ UNCHANGED tables

HomeChefWidget_ask_ai_about_step ==
    /\ IsWidget
    /\ Len(ui.chat_history) < MaxChat
    /\ IF ui._cook_steps = <<>>
       THEN /\ ui' = ui
            /\ op' = [name |-> "_ask_ai_about_step", sent |-> {}]
            /\ ret' = None
       ELSE LET msg == Question(ui._cook_steps[ui._cook_index + 1])
            IN  HomeChefWidget_send_chat("_ask_ai_about_step",
                                         [ui EXCEPT !.chat_input = msg])
    /\ UNCHANGED tables

\* ---- both ----
\* the user types into the chat box
chat_input_setText(text) ==
    /\ IsWindow \/ IsWidget
    /\ ui' = [ui EXCEPT !.chat_input = text]
    /\ op' = [name |-> "chat_input.setText"]
    /\ ret' = None
    /\ UNCHANGED tables

ChatInputs == {<<>>, <<" ","H","i"," ">>}

\* the steps typed for an added recipe: none, and one step
\* the user types into the search box of the widget; textChanged has no
\* slot
HomeChefWidget_search_box_setText(text) ==
    /\ IsWidget
    /\ ui' = [ui EXCEPT !.search_box = text]
    /\ op' = [name |-> "search_box.setText"]
    /\ ret' = None
    /\ UNCHANGED tables

\* the user clicks "Favorites only": stateChanged calls _load_recipes()
HomeChefWidget_fav_only_stateChanged ==
    /\ IsWidget
    /\ \E w \in {[ui EXCEPT !.fav_only = ~ui.fav_only]} :
          ui' = [w EXCEPT !.recipe_list = loaded_recipes(w), !.selected = 0]
    /\ op' = [name |-> "_load_recipes"]
    /\ ret' = None
    /\ UNCHANGED tables

\* search texts: none, one of letters, one that is a wildcard of LIKE
SearchTexts == {<<>>, <<" ","E","G","G"," ">>, <<"_">>}

\* the title of the recipe added while searching, which holds "_"
SearchTitles == {<<"a","_","b">>}

\* the recipes marked and unmarked as favorites
FavoriteIds == {1, 2}

\* HomeChefWidget() after init_db()
InitSearch ==
    /\ recipes = [i \in 1..Len(SampleRecipes) |-> SampleRecipes[i]]
    /\ recipe_seq = Len(SampleRecipes)
    /\ pantry_items = {}
    /\ grocery_items = << >>
    /\ grocery_seq = 0
    /\ recipe_notes = << >>
    /\ ui = [NewWidget EXCEPT !.recipe_list = SampleRows]
    /\ op = [name |-> "_load_recipes"]
    /\ ret = None

\* searching the recipes while recipes are added and marked as favorites
NextSearch ==
    \/ \E title \in SearchTitles : add_recipe(title, <<>>, <<>>, {})
    \/ \E id \in FavoriteIds, fav \in BOOLEAN : set_favorite(id, fav)
    \/ \E search \in SearchTexts : list_recipes_call(search)
    \/ \E text \in SearchTexts : HomeChefWidget_search_box_setText(text)
    \/ HomeChefWidget_load_recipes
    \/ HomeChefWidget_fav_only_stateChanged

SpecSearch == InitSearch /\ [][NextSearch]_vars

StepsInputs == {<<>>, <<" ","\n"," ","M","i","x",".","\t","\n">>}

\* HomeChefWindow() or HomeChefWidget(), each after init_db()
InitCook ==
    \/ InitPage
    \/ /\ recipes = [i \in 1..Len(SampleRecipes) |-> SampleRecipes[i]]
       /\ recipe_seq = Len(SampleRecipes)
       /\ pantry_items = {}
       /\ grocery_items = << >>
       /\ grocery_seq = 0
       /\ recipe_notes = << >>
       /\ ui = [NewWidget EXCEPT !.recipe_list = SampleRows]
       /\ op = [name |-> "_load_recipes"]
       /\ ret = None

\* cooking mode while recipes are added and the lists are loaded again
NextCook ==
    \/ \E title \in TitleInputs, text \in GroceryTexts, steps \in StepsInputs :
          add_recipe(title, text, steps, {})
    \/ search_box_returnPressed
    \/ \E k \in 1..(Len(SampleRecipes) + MaxAdded) : BtnView_clicked(k)
    \/ HomeChefWindow_prev_step
    \/ HomeChefWindow_next_step
    \/ HomeChefWidget_load_recipes
    \/ \E k \in 1..(Len(SampleRecipes) + MaxAdded) : _on_select_recipe(k)
    \/ HomeChefWidget_prev_step
    \/ HomeChefWidget_next_step

SpecCook == InitCook /\ [][NextCook]_vars

\* the chat next to cooking mode, over the recipes shown at the start
NextChat ==
    \/ \E k \in 1..Len(SampleRecipes) : BtnView_clicked(k)
    \/ HomeChefWindow_prev_step
    \/ HomeChefWindow_next_step
    \/ HomeChefWindow_send_clicked
    \/ HomeChefWindow_ask_ai_about_step
    \/ \E k \in 1..Len(SampleRecipes) : _on_select_recipe(k)
    \/ HomeChefWidget_prev_step
    \/ HomeChefWidget_next_step
    \/ HomeChefWidget_send_clicked
    \/ HomeChefWidget_ask_ai_about_step
    \/ \E text \in ChatInputs : chat_input_setText(text)

SpecChat == InitCook /\ [][NextChat]_vars

(***************************************************************************)
(* "Add Missing Ingredients" of HomeChefWindow.                            *)
(***************************************************************************)
\* the names of list_grocery(): ORDER BY name ASC
RECURSIVE names_by_name(_, _)
names_by_name(items, ids) ==
    IF ids = {} THEN <<>>
    ELSE LET first == CHOOSE i \in ids : \A j \in ids \ {i} :
                        \/ less(items[i].name, items[j].name)
                        \/ items[i].name = items[j].name /\ i < j
         IN  <<items[first].name>> \o names_by_name(items, ids \ {first})

\* _reload_grocery() on the rows items
_reload_grocery(w, items) ==
    [w EXCEPT !.grocery_list = names_by_name(items, DOMAIN items)]

\* _add_missing_via_api(): nothing without a selected recipe; else the
\* request /grocery_list/<id>, and add_missing_to_grocery(id) when it fails
\* or yields no data; then the list is loaded again.  missing is what
\* add_missing_to_grocery returned, {} when it was not called.
_add_missing_via_api ==
    /\ IsWindow
    /\ grocery_seq < MaxGroceryId
    /\ IF ui.selected_recipe = None
       THEN /\ op' = [name |-> "_add_missing_via_api", missing |-> {}]
            /\ UNCHANGED <<grocery_items, grocery_seq, ui>>
       ELSE \E k \in DOMAIN ApiReplies :
               LET rid == IF "id" \in DOMAIN ui.selected_recipe
                          THEN {ui.selected_recipe.id} ELSE {}
                   local == rid # {} /\ ~Truthy(ApiReplies[k])
               IN  \E missing \in
                        {IF local
                         THEN compute_missing_ingredients(CHOOSE i \in rid : TRUE)
                         ELSE <<>>} :
                      \E g \in {add_each(grocery, missing)} :
                         /\ grocery_items' = g.items
                         /\ grocery_seq' = g.seq
                         /\ ui' = _reload_grocery(ui, g.items)
                         /\ op' = [name |-> "_add_missing_via_api",
                                   missing |-> IF local THEN {missing} ELSE {}]
    /\ ret' = None
    /\ UNCHANGED <<recipes, recipe_seq, pantry_items, recipe_notes>>

\* the pantry names offered next to the recipes page
MissingPantryNames == {<<"m","i","l","k">>, <<"o","i","l">>}

NextMissing ==
    \/ \E text \in SearchInputs : search_box_setText(text)
    \/ search_box_returnPressed
    \/ \E k \in 1..Len(SampleRecipes) : BtnView_clicked(k)
    \/ \E name \in MissingPantryNames : add_pantry_item(name)
    \/ _add_missing_via_api

SpecMissing == InitPage /\ [][NextMissing]_vars

(***************************************************************************)
(* The normalizer alone: the caller supplies a line, the call returns.     *)
(***************************************************************************)
InitNorm ==
    /\ recipes = [i \in 1..Len(SampleRecipes) |-> SampleRecipes[i]]
    /\ recipe_seq = Len(SampleRecipes)
    /\ pantry_items = {}
    /\ grocery_items = << >>
    /\ grocery_seq = 0
    /\ recipe_notes = << >>
    /\ ui = None
    /\ op \in {[name |-> "line", line |-> l] : l \in LineInputs}
    /\ ret = None

\* the call _normalize_ingredient(line) on the supplied line
normalize_call ==
    /\ op.name = "line"
    /\ op' = [name |-> "_normalize_ingredient", line |-> op.line]
    /\ ret' = _normalize_ingredient(op.line)
    /\ UNCHANGED <<tables, ui>>

NextNorm == normalize_call

SpecNorm == InitNorm /\ [][NextNorm]_vars

(***************************************************************************)
(* Properties of _normalize_ingredient (checked under SpecNorm).           *)
(***************************************************************************)
PunctuationSet == {Punctuation[i] : i \in 1..Len(Punctuation)}

\* the line lower-cased with each listed punctuation character a space
Spaced(line) ==
    [i \in 1..Len(line) |->
        IF line[i] \in PunctuationSet THEN " " ELSE lower(line)[i]]

\* the positions where a whitespace-separated token of s starts
TokenStarts(s) ==
    {i \in 1..Len(s) :
        s[i] \notin Whitespace /\ (i = 1 \/ s[i - 1] \in Whitespace)}

\* the token of s that starts at position i
TokenAt(s, i) ==
    SubSeq(s, i, CHOOSE j \in i..Len(s) :
                    /\ \A k \in i..j : s[k] \notin Whitespace
                    /\ j = Len(s) \/ s[j + 1] \in Whitespace)

AllDigits(tok) == \A i \in 1..Len(tok) : tok[i] \in Digits

\* the tokens of s starting at the positions of starts, in order, joined by
\* single spaces
RECURSIVE Spell(_, _)
Spell(s, starts) ==
    IF starts = {} THEN <<>>
    ELSE LET m == CHOOSE i \in starts : \A j \in starts : i <= j
         IN  IF starts = {m} THEN TokenAt(s, m)
             ELSE TokenAt(s, m) \o <<" ">> \o Spell(s, starts \ {m})

\* what the specification says normalize(line) is
NormalForm(line) ==
    LET s == Spaced(line)
    IN  Spell(s, {i \in TokenStarts(s) : ~AllDigits(TokenAt(s, i))})

Normalized == op.name = "_normalize_ingredient"

\* C2: _normalize_ingredient returns the line lower-cased, with , . ; : ( )
\* replaced by spaces, split on whitespace, purely numeric tokens removed and
\* the remaining tokens joined in order by single spaces.
C2_NormalizeAsSpecified == Normalized => ret = NormalForm(op.line)

\* "2 cups whole Milk." has been normalized to "cups whole milk"
C2_Witness ==
    /\ Normalized
    /\ op.line = <<"2"," ","c","u","p","s"," ","w","h","o","l","e"," ","M",
                   "i","l","k",".">>
    /\ ret = <<"c","u","p","s"," ","w","h","o","l","e"," ","m","i","l","k">>

\* C8: normalizing the result of a normalization returns that same result.
C8_NormalizeIdempotent == Normalized => _normalize_ingredient(ret) = ret

\* a line that the normalization changed, to a non-empty key of two tokens
C8_Witness ==
    /\ Normalized
    /\ ret # op.line
    /\ Len(split(ret)) = 2

\* a well-formed key: lower case, none of the replaced punctuation, no
\* whitespace but single spaces between tokens, no purely numeric token
IsKey(k) ==
    /\ \A i \in 1..Len(k) :
          /\ k[i] \notin PunctuationSet
          /\ k[i] \notin Whitespace \ {" "}
          /\ lower_char(k[i]) = k[i]
          /\ k[i] = " " => i > 1 /\ i < Len(k) /\ k[i + 1] # " "
    /\ \A i \in TokenStarts(k) : ~AllDigits(TokenAt(k, i))

\* C9: every input line, also an empty one and one made only of whitespace,
\* digits or punctuation, yields a key, and the empty line yields the empty
\* key.
C9_NormalizeTotal ==
    Normalized => /\ IsKey(ret)
                  /\ op.line = <<>> => ret = <<>>

\* the empty line and a line of only digits and punctuation have been
\* normalized
C9_Witness ==
    /\ Normalized
    /\ ret = <<>>
    /\ \/ op.line = <<>>
       \/ op.line = <<"1", ".", " ", ")">>

(***************************************************************************)
(* Properties of compute_missing_ingredients (checked under Spec).         *)
(***************************************************************************)
Range(f) == {f[i] : i \in 1..Len(f)}

NonBlank(line) == \E i \in 1..Len(line) : line[i] \notin Whitespace

\* the non-blank ingredient lines of a stored recipe, in order
LinesOf(recipe_id) ==
    SelectSeq(splitlines(recipes[recipe_id].ingredients_text), NonBlank)

\* the tokens of a string, in order
TokensOf(s) ==
    LET starts == TokenStarts(s)
        nth(n) == CHOOSE i \in starts :
                      Cardinality({j \in starts : j < i}) = n - 1
    IN  [n \in 1..Cardinality(starts) |-> TokenAt(s, nth(n))]

\* the last token of the normalized form of a line, empty when it has none
LastToken(line) ==
    LET toks == TokensOf(NormalForm(line))
    IN  IF toks = <<>> THEN <<>> ELSE toks[Len(toks)]

\* compute_missing_ingredients has returned for a stored recipe
Computed ==
    /\ op.name = "compute_missing_ingredients"
    /\ op.arg \in DOMAIN recipes

\* C1: compute_missing_ingredients returns exactly the keys that are the last
\* token of the normalized form of a non-blank ingredient line, are not
\* empty and are not an element of the pantry.
C1_MissingKeys ==
    Computed =>
        Range(ret) = {k \in {LastToken(l) : l \in Range(LinesOf(op.arg))} :
                         k # <<>> /\ k \notin pantry_items}

\* flour, eggs and milk lines matched against the pantry {flour, eggs}
C1_Witness ==
    /\ Computed
    /\ LinesOf(op.arg) = << <<"1"," ","c","u","p"," ","f","l","o","u","r">>,
                            <<"2"," ","e","g","g","s">>,
                            <<"1","/","2"," ","c","u","p"," ","m","i","l","k">> >>
    /\ pantry_items = {<<"f","l","o","u","r">>, <<"e","g","g","s">>}
    /\ ret = << <<"m","i","l","k">> >>

\* the first line of a recipe that produces the key k
FirstLine(recipe_id, k) ==
    LET ls == LinesOf(recipe_id)
        at == {i \in 1..Len(ls) : LastToken(ls[i]) = k}
    IN  CHOOSE i \in at : \A j \in at : i <= j

\* C3: the returned list has no duplicate key and lists the keys in the
\* order of the first ingredient line that produces each.
C3_NoDuplicateFirstOccurrence ==
    Computed =>
        /\ \A i \in 1..Len(ret) :
              \E l \in Range(LinesOf(op.arg)) : LastToken(l) = ret[i]
        /\ \A i, j \in 1..Len(ret) :
              i < j => /\ ret[i] # ret[j]
                       /\ FirstLine(op.arg, ret[i]) < FirstLine(op.arg, ret[j])

\* two sugar lines matched against an empty pantry give sugar once
C3_Witness ==
    /\ Computed
    /\ LinesOf(op.arg) = << <<"3"," ","t","b","s","p"," ","s","u","g","a","r">>,
                            <<"1"," ","t","b","s","p"," ","s","u","g","a","r">> >>
    /\ pantry_items = {}
    /\ ret = << <<"s","u","g","a","r">> >>

\* a token of the normalized form of the line, other than the last, is in
\* the pantry while the last is not
OnlyFrontInPantry(line) ==
    LET toks == TokensOf(NormalForm(line))
    IN  /\ Len(toks) > 1
        /\ toks[Len(toks)] \notin pantry_items
        /\ \E n \in 1..(Len(toks) - 1) : toks[n] \in pantry_items

\* C6: a pantry entry equal to a non-final token of a line does not suppress
\* the line: its final token is reported missing.
C6_LastTokenOnly ==
    Computed =>
        \A l \in Range(LinesOf(op.arg)) :
            OnlyFrontInPantry(l) => LastToken(l) \in Range(ret)

\* "1/4 tsp red pepper flakes" matched against the pantry {pepper}
C6_Witness ==
    /\ Computed
    /\ LinesOf(op.arg) = << <<"1","/","4"," ","t","s","p"," ","r","e","d"," ",
                              "p","e","p","p","e","r"," ","f","l","a","k","e",
                              "s">> >>
    /\ pantry_items = {<<"p","e","p","p","e","r">>}
    /\ ret = << <<"f","l","a","k","e","s">> >>

\* the lines of the recipe text that are not blank and whose normalized form
\* is not empty
KeyedLines(recipe_id) ==
    SelectSeq(splitlines(recipes[recipe_id].ingredients_text),
              LAMBDA l : NonBlank(l) /\ NormalForm(l) # <<>>)

\* C7: compute_missing_ingredients returns a list of non-empty keys; blank
\* lines and lines whose normalized form is empty contribute nothing to it,
\* and an unknown recipe id yields the empty list.
C7_NoEmptyKey ==
    op.name = "compute_missing_ingredients" =>
        /\ \A i \in 1..Len(ret) : ret[i] # <<>> /\ IsKey(ret[i])
        /\ op.arg \notin DOMAIN recipes => ret = <<>>
        /\ op.arg \in DOMAIN recipes =>
              ret = unique_missing(keys_of(KeyedLines(op.arg)), pantry_items)

\* a recipe with a blank line and a line of digits and punctuation only has
\* been matched and another line of it is reported
C7_Witness ==
    /\ Computed
    /\ \E l \in Range(LinesOf(op.arg)) : NormalForm(l) = <<>>
    /\ \E l \in Range(splitlines(recipes[op.arg].ingredients_text)) :
          ~NonBlank(l)
    /\ ret # <<>>

\* C10: the set of returned keys is the same for every permutation of the
\* recipe's ingredient lines.
C10_OrderIrrelevant ==
    Computed =>
        LET keys == keys_of(ingredients_lines(recipes[op.arg]))
        IN  \A p \in Permutations(1..Len(keys)) :
                Range(unique_missing([i \in 1..Len(keys) |-> keys[p[i]]],
                                     pantry_items)) = Range(ret)

\* a recipe of several lines with different keys has been matched and at
\* least two of them are missing
C10_Witness ==
    /\ Computed
    /\ Len(ret) > 1
    /\ Len(LinesOf(op.arg)) > Len(ret)

(***************************************************************************)
(* Properties of the pantry (checked under SpecPantry).                    *)
(***************************************************************************)
\* C4: every stored pantry entry is its own normalized form and no two
\* entries have the same normalized form.
C4_PantryNormalized ==
    /\ \A e \in pantry_items : _normalize_ingredient(e) = e
    /\ \A e1, e2 \in pantry_items :
          _normalize_ingredient(e1) = _normalize_ingredient(e2) => e1 = e2

\* equal but for letter case and surrounding whitespace
SameName(a, b) == lower(strip(a)) = lower(strip(b))

\* C5: no two pantry entries are equal under case-insensitive,
\* whitespace-trimmed comparison, and adding a name that differs from an
\* entry only in case or surrounding whitespace leaves the pantry unchanged.
C5_PantryUnique ==
    /\ [](\A e1, e2 \in pantry_items : SameName(e1, e2) => e1 = e2)
    /\ [][(/\ op'.name = "add_pantry_item"
           /\ \E e \in pantry_items : SameName(e, op'.arg))
              => pantry_items' = pantry_items]_vars

\* a name in another case and with surrounding whitespace has been added
\* and the pantry holds its trimmed lower-case form, next to another entry
C5_Witness ==
    /\ op.name = "add_pantry_item"
    /\ op.arg \notin pantry_items
    /\ lower(op.arg) # op.arg
    /\ strip(op.arg) # op.arg
    /\ lower(strip(op.arg)) \in pantry_items
    /\ Cardinality(pantry_items) = 2


(***************************************************************************)
(* The grocery list, the recipe ids and the recipe notes.                  *)
(***************************************************************************)
\* C11: a call of compute_missing_ingredients is a pure read: it leaves
\* the recipes, the pantry, the grocery items and the recipe notes as they
\* were, and a second call on the stored state returns the list the first
\* call returned.
C11_ComputeIsPureRead ==
    [][op'.name = "compute_missing_ingredients" =>
          /\ tables' = tables
          /\ ret' = compute_missing_ingredients(op'.arg)
          /\ (op.name = "compute_missing_ingredients" /\ op.arg = op'.arg)
                => ret' = ret]_vars

\* a recipe with a key in the pantry and a key missing was matched while
\* the grocery list and the notes held rows
C11_Witness ==
    /\ op.name = "compute_missing_ingredients"
    /\ op.arg \in DOMAIN recipes
    /\ ret # <<>>
    /\ Len(ret) < Len(keys_of(ingredients_lines(recipes[op.arg])))
    /\ pantry_items # {}
    /\ DOMAIN grocery_items # {}
    /\ DOMAIN recipe_notes # {}

\* the rows a step adds to the grocery list
NewRows == DOMAIN grocery_items' \ DOMAIN grocery_items

\* the rows of the grocery list are kept as they are
RowsKept ==
    \A i \in DOMAIN grocery_items :
        i \in DOMAIN grocery_items' /\ grocery_items'[i] = grocery_items[i]

\* C12: add_missing_to_grocery(recipe_id) returns the list
\* compute_missing_ingredients(recipe_id) returns on the same state and
\* inserts one new unchecked grocery item per returned key, so that the list
\* grows by the length of the returned list, also when an item of the same
\* name is listed already; the recipes and the pantry are left unchanged.
C12_AddMissingAddsEachKey ==
    [][op'.name = "add_missing_to_grocery" =>
          LET missing == compute_missing_ingredients(op'.arg)
          IN  /\ ret' = missing
              /\ RowsKept
              /\ Cardinality(DOMAIN grocery_items') =
                    Cardinality(DOMAIN grocery_items) + Len(missing)
              /\ \A i \in NewRows : grocery_items'[i].is_checked = 0
              /\ \A k \in DOMAIN missing :
                    Cardinality({i \in NewRows :
                                   grocery_items'[i].name = missing[k]}) = 1
              /\ <<recipes, recipe_seq, pantry_items>>' =
                    <<recipes, recipe_seq, pantry_items>>]_vars

\* two keys were returned and the list holds one of them twice
C12_Witness ==
    /\ op.name = "add_missing_to_grocery"
    /\ Len(ret) = 2
    /\ \E i, j \in DOMAIN grocery_items :
          /\ i < j
          /\ grocery_items[i].name = grocery_items[j].name
          /\ grocery_items[j].name = ret[1]

\* C13: whatever add_grocery_item, add_missing_to_grocery,
\* set_grocery_checked, remove_grocery_item and clear_grocery were called,
\* every stored grocery name equals its own lower-cased form.
C13_GroceryLowerCase ==
    \A i \in DOMAIN grocery_items :
        grocery_items[i].name = lower(grocery_items[i].name)

\* a name with a capital was added and its row is stored
C13_Witness ==
    /\ op.name = "add_grocery_item"
    /\ op.arg # lower(op.arg)
    /\ grocery_seq \in DOMAIN grocery_items
    /\ grocery_items[grocery_seq].name = lower(strip(op.arg))

\* the columns of a recipe other than its favorite flag
Content(row) == <<row.title, row.ingredients_text, row.steps_text,
                  row.cook_time>>

\* C14: add_recipe hands out and returns a new integer id that no stored
\* recipe bears, and no operation (set_favorite, set_recipe_notes, the
\* pantry and grocery calls, a repeated init_db) changes the id of a stored
\* recipe.
C14_RecipeIdsStable ==
    [][/\ \A i \in DOMAIN recipes :
             i \in DOMAIN recipes' /\ Content(recipes'[i]) = Content(recipes[i])
       /\ op'.name = "add_recipe" =>
             /\ ret' \in Int
             /\ ret' \notin DOMAIN recipes
             /\ DOMAIN recipes' = DOMAIN recipes \cup {ret'}
       /\ op'.name # "add_recipe" => DOMAIN recipes' = DOMAIN recipes]_vars

\* a recipe was added, then made a favorite and given notes, the pantry
\* and the grocery list were filled, and init_db was called again
C14_Witness ==
    /\ op.name = "init_db"
    /\ Len(SampleRecipes) + 1 \in DOMAIN recipes
    /\ recipes[Len(SampleRecipes) + 1].is_favorite = 1
    /\ DOMAIN recipe_notes # {}
    /\ pantry_items # {}
    /\ DOMAIN grocery_items # {}

\* what get_recipe_notes returns for the recipe of the last call
NotesRead == get_recipe_notes(op.arg)

\* C15: a recipe id has at most one notes record: get_recipe_notes(id)
\* returns the text most recently set for that id, the empty string when
\* none was ever set, whatever was set for the other ids.
C15_NotesPerRecipe ==
    /\ \A j \in NoteIds : get_recipe_notes(j) = <<>>
    /\ [][/\ op'.name = "set_recipe_notes" =>
                /\ NotesRead' = op'.text
                /\ \A j \in NoteIds \ {op'.arg} :
                      get_recipe_notes(j)' = get_recipe_notes(j)
          /\ op'.name = "get_recipe_notes" =>
                /\ ret' = get_recipe_notes(op'.arg)
                /\ \A j \in NoteIds :
                      get_recipe_notes(j)' = get_recipe_notes(j)]_vars

\* the notes of a recipe were read back while another recipe had other
\* notes
C15_Witness ==
    /\ op.name = "get_recipe_notes"
    /\ ret = <<"n","o"," ">>
    /\ \E j \in DOMAIN recipe_notes :
          j # op.arg /\ recipe_notes[j] = <<"o","k">>

\* C16: every grocery item gets an id of its own and starts unchecked;
\* set_grocery_checked(id, b) changes the flag of that item only, and
\* remove_grocery_item(id) removes that item only.
C16_GroceryItemsById ==
    [][/\ (op'.name = "add_grocery_item" /\ op'.arg # <<>>) =>
             /\ RowsKept
             /\ Cardinality(NewRows) = 1
             /\ \A i \in NewRows : i \in Int /\ grocery_items'[i].is_checked = 0
       /\ op'.name = "set_grocery_checked" =>
             /\ DOMAIN grocery_items' = DOMAIN grocery_items
             /\ \A i \in DOMAIN grocery_items :
                   /\ grocery_items'[i].name = grocery_items[i].name
                   /\ grocery_items'[i].is_checked =
                         IF i # op'.arg THEN grocery_items[i].is_checked
                         ELSE IF op'.checked THEN 1 ELSE 0
       /\ op'.name = "remove_grocery_item" =>
             /\ DOMAIN grocery_items' = DOMAIN grocery_items \ {op'.arg}
             /\ \A i \in DOMAIN grocery_items' :
                   grocery_items'[i] = grocery_items[i]]_vars

\* an item was checked next to an unchecked item of the same name, after
\* another item had been removed
C16_Witness ==
    /\ op.name = "set_grocery_checked"
    /\ op.arg \in DOMAIN grocery_items
    /\ grocery_items[op.arg].is_checked = 1
    /\ \E j \in DOMAIN grocery_items :
          /\ grocery_items[j].name = grocery_items[op.arg].name
          /\ grocery_items[j].is_checked = 0
    /\ Cardinality(DOMAIN grocery_items) < grocery_seq


(***************************************************************************)
(* The recipes page of HomeChefWindow (checked under SpecPage).            *)
(***************************************************************************)
\* s occurs in text
Contains(text, s) ==
    \E k \in 0..(Len(text) - Len(s)) : SubSeq(text, k + 1, k + Len(s)) = s

\* the minutes of the selected item of the time filter, 0 for no limit
SelectedMinutes ==
    CHOOSE n \in {0, 15, 30, 45, 60} :
        \E i \in DOMAIN TimeItems :
            /\ TimeItems[i] = ui.time_filter
            /\ n = <<0, 15, 30, 45, 60>>[i]

\* the ids of the stored recipes that match the search text, whatever the
\* case, and the selected maximum cook time, an unknown cook time counting
\* as 0
Matching ==
    LET s == lower(strip(ui.search_box))
    IN  {i \in DOMAIN recipes :
           /\ \/ Contains(lower(recipes[i].title), s)
              \/ Contains(lower(recipes[i].ingredients_text), s)
           /\ \/ SelectedMinutes = 0
              \/ \A t \in recipes[i].cook_time : t <= SelectedMinutes}

\* C17: whenever the request of _load_recipes_page fails or yields no data,
\* the recipes taken for rendering are the recipes of the local database
\* that match the search text and the selected maximum cook time, and the
\* built-in sample recipe is taken only when there is no such recipe.
C17_LocalFallback ==
    (op.name = "_load_recipes_page" /\ ~Truthy(op.data)) =>
        /\ Matching = {} => op.taken = <<SampleCard>>
        /\ Matching # {} =>
              /\ Len(op.taken) = Cardinality(Matching)
              /\ \A k \in DOMAIN op.taken :
                    /\ op.taken[k] # SampleCard
                    /\ op.taken[k].id \in Matching
                    /\ op.taken[k] = row_dict(op.taken[k].id)
              /\ \A i \in Matching :
                    \E k \in DOMAIN op.taken : op.taken[k].id = i

\* the request failed and the search text and the cook time each left out
\* a stored recipe
C17_Witness ==
    /\ op.name = "_load_recipes_page"
    /\ op.data = None
    /\ op.taken # <<SampleCard>>
    /\ \E i \in DOMAIN recipes :
          ~Contains(lower(recipes[i].title), lower(strip(ui.search_box)))
          /\ ~Contains(lower(recipes[i].ingredients_text),
                       lower(strip(ui.search_box)))
    /\ \E i \in DOMAIN recipes, k \in DOMAIN op.taken :
          /\ Contains(lower(recipes[i].ingredients_text),
                      lower(strip(ui.search_box)))
          /\ \E t \in recipes[i].cook_time : t > SelectedMinutes
          /\ SelectedMinutes > 0
          /\ op.taken[k].id # i


(***************************************************************************)
(* The suggestions of the remote model (checked under SpecSuggest).        *)
(***************************************************************************)
\* the titles the model returned: the strings of the list under "matches"
ReturnedTitles ==
    LET data == json_loads(or_braces(op.completion.content))
    IN  IF "raised" \in DOMAIN data THEN {}
        ELSE IF data.kind # "dict" THEN {}
        ELSE IF "matches" \notin data.keys THEN {}
        ELSE IF data.matches.kind # "list" THEN {}
        ELSE {data.matches.items[k].value :
                k \in {j \in DOMAIN data.matches.items :
                         data.matches.items[j].kind = "str"}}

\* C18: suggest_recipes_from_ingredients always ends by returning a dict
\* with exactly the keys matches, creative_suggestions and substitutions,
\* whatever content the model returned (a JSON object, an empty content,
\* text that is not valid JSON, JSON that is not an object), and every
\* element of matches is the id of a recipe of local_recipes whose title is
\* one of the returned titles.
C18_SuggestReturnsDict ==
    (op.name = "suggest_recipes_from_ingredients"
     /\ "content" \in DOMAIN op.completion) =>
        /\ DOMAIN ret = {"matches", "creative_suggestions", "substitutions"}
        /\ \A k \in DOMAIN ret.matches :
              \E j \in DOMAIN op.local_recipes :
                 /\ op.local_recipes[j].id = ret.matches[k]
                 /\ op.local_recipes[j].title \in ReturnedTitles


(***************************************************************************)
(* Cooking mode (checked under SpecCook) and "Ask AI about this Step"      *)
(* (checked under SpecChat), in both UIs.                                  *)
(***************************************************************************)
\* the index is 0 without steps and the index of a step otherwise
CookIndexInRange ==
    IF ui._cook_steps = <<>> THEN ui._cook_index = 0
    ELSE 0 <= ui._cook_index /\ ui._cook_index < Len(ui._cook_steps)

\* C19: in both UIs, over any selections of recipes and any presses of
\* Previous Step and Next Step, 0 <= _cook_index < len(_cook_steps) while
\* there are steps, and the index is 0 and neither button does anything
\* while there are none; selecting a recipe sets the index to 0, Previous
\* Step at the first step and Next Step at the last one leave it, and any
\* other press moves it by exactly one.
C19_CookIndex ==
    /\ CookIndexInRange
    /\ [][/\ CookIndexInRange'
          /\ op'.name = "select" => ui'._cook_index = 0
          /\ op'.name \in {"_prev_step", "_next_step"} =>
                /\ ui'._cook_steps = ui._cook_steps
                /\ ui._cook_steps = <<>> => ui' = ui
          /\ op'.name = "_prev_step" =>
                ui'._cook_index =
                    IF ui._cook_steps = <<>> \/ ui._cook_index = 0
                    THEN ui._cook_index ELSE ui._cook_index - 1
          /\ op'.name = "_next_step" =>
                ui'._cook_index =
                    IF \/ ui._cook_steps = <<>>
                       \/ ui._cook_index = Len(ui._cook_steps) - 1
                    THEN ui._cook_index ELSE ui._cook_index + 1]_vars

\* Next Step has brought the widget to the last of several steps of a
\* recipe that was selected after one without steps was added
C19_Witness ==
    /\ IsWidget
    /\ op.name = "_next_step"
    /\ Len(ui._cook_steps) > 1
    /\ ui._cook_index = Len(ui._cook_steps) - 1
    /\ \E i \in DOMAIN recipes : steps_of(recipes[i].steps_text) = <<>>

\* C20: in both UIs, "Ask AI about this Step" pressed while there is at
\* least one step sends the text "Question about step: " followed by the
\* current step to the chat backend, and adds to the chat history exactly
\* one entry of the user with that text, followed by exactly one entry of
\* the assistant.
C20_AskSendsStep ==
    [][(op'.name = "_ask_ai_about_step" /\ ui._cook_steps # <<>>) =>
          LET msg == Question(ui._cook_steps[ui._cook_index + 1])
              h == ui.chat_history
          IN  /\ op'.sent = {msg}
              /\ Len(ui'.chat_history) = Len(h) + 2
              /\ SubSeq(ui'.chat_history, 1, Len(h)) = h
              /\ ui'.chat_history[Len(h) + 1] = [role |-> "user", text |-> msg]
              /\ ui'.chat_history[Len(h) + 2].role = "assistant"]_vars


(***************************************************************************)
(* "Add Missing Ingredients" of HomeChefWindow (checked under              *)
(* SpecMissing).                                                           *)
(***************************************************************************)
\* the ingredient list the card of r shows (_recipe_card)
CardIngredients(r) ==
    IF "ingredients_text" \in DOMAIN r /\ r.ingredients_text # <<>>
    THEN r.ingredients_text
    ELSE IF "ingredients" \in DOMAIN r THEN r.ingredients
    ELSE <<>>

\* the keys of the card of r that the pantry does not hold
CardMissing(r) ==
    unique_missing(
        keys_of(ingredients_lines([ingredients_text |-> CardIngredients(r)])),
        list_pantry)

\* C21: in HomeChefWindow the keys "Add Missing Ingredients" adds to the
\* local grocery list are always computed from the ingredient list of the
\* recipe held in selected_recipe, the card the user opened, also when that
\* card is the built-in placeholder shown for an empty result.
C21_MissingOfSelectedCard ==
    (op.name = "_add_missing_via_api" /\ op.missing # {}) =>
        op.missing = {CardMissing(ui.selected_recipe)}


(***************************************************************************)
(* Blank names (checked under SpecNames).                                  *)
(***************************************************************************)
\* C22: add_pantry_item and add_grocery_item leave their table unchanged
\* when the given name is empty once its whitespace is trimmed, so that in
\* every reachable state no pantry entry and no grocery item has an empty
\* name.
C22_NoEmptyName ==
    /\ \A e \in pantry_items : e # <<>>
    /\ \A i \in DOMAIN grocery_items : grocery_items[i].name # <<>>
    /\ [][/\ \A e \in pantry_items' : e # <<>>
          /\ \A i \in DOMAIN grocery_items' : grocery_items'[i].name # <<>>
          /\ (/\ op'.name \in {"add_pantry_item", "add_grocery_item"}
              /\ strip(op'.arg) = <<>>) => tables' = tables]_vars


(***************************************************************************)
(* The pantry filled with the missing keys (checked under SpecFill).       *)
(***************************************************************************)
\* C23: for any recipe and any pantry, once add_pantry_item(k) was called
\* for every key k that compute_missing_ingredients(recipe) returned,
\* compute_missing_ingredients(recipe) returns the empty list.
C23_FilledPantryMissesNothing ==
    op.name = "fill_pantry" =>
        /\ ret = <<>>
        /\ compute_missing_ingredients(op.arg) = <<>>

\* a key was missing next to one the pantry held, and was added
C23_Witness ==
    /\ op.name = "fill_pantry"
    /\ op.missing # <<>>
    /\ \E e \in pantry_items : \A k \in DOMAIN op.missing : op.missing[k] # e
    /\ \A k \in DOMAIN op.missing : op.missing[k] \in pantry_items
    /\ ret = <<>>


(***************************************************************************)
(* init_db() called again and again (checked under SpecInit).              *)
(***************************************************************************)
\* C24: insert_sample_recipes_if_empty inserts the three samples exactly
\* when the table recipes is empty: init_db, called any number of times,
\* never duplicates the samples and never adds to or changes a table
\* recipes that holds a recipe, and it leaves the pantry, the grocery list
\* and the notes as they are.
C24_SamplesOnlyIntoEmpty ==
    [][op'.name = "init_db" =>
          /\ other_tables' = other_tables
          /\ DOMAIN recipes # {} => recipes' = recipes
          /\ DOMAIN recipes = {} =>
                /\ Cardinality(DOMAIN recipes') = Len(SampleRecipes)
                /\ \A k \in 1..Len(SampleRecipes) :
                      Cardinality({i \in DOMAIN recipes' :
                                     recipes'[i] = SampleRecipes[k]}) = 1]_vars

\* init_db was called on a database in which a sample is a favorite and
\* has notes, a recipe was added, and the pantry and the grocery list hold
\* an entry
C24_Witness ==
    /\ op.name = "init_db"
    /\ Cardinality(DOMAIN recipes) = Len(SampleRecipes) + 1
    /\ recipes[1].is_favorite = 1
    /\ 1 \in DOMAIN recipe_notes
    /\ pantry_items # {}
    /\ DOMAIN grocery_items # {}

(***************************************************************************)
(* Searching the recipes (checked under SpecSearch).                       *)
(***************************************************************************)
\* the recipes whose title or ingredients text contains the search string
\* without regard to case; every recipe when there is no search
MatchingSearch(search) ==
    {i \in DOMAIN recipes :
       \/ search = <<>>
       \/ Contains(lower(recipes[i].title), lower(search))
       \/ Contains(lower(recipes[i].ingredients_text), lower(search))}

\* rows holds exactly the recipes ids, each once, in ascending title order
ExactlyAscending(rows, ids) ==
    /\ Len(rows) = Cardinality(ids)
    /\ {rows[k].id : k \in DOMAIN rows} = ids
    /\ \A k \in DOMAIN rows : rows[k] = row_dict(rows[k].id)
    /\ \A k, l \in DOMAIN rows : k < l => ~less(rows[l].title, rows[k].title)

\* the list a "Favorites only" load shows holds the favorites that match
\* the trimmed search text
FavoritesFiltered ==
    (op.name = "_load_recipes" /\ IsWidget /\ ui.fav_only) =>
        ExactlyAscending(ui.recipe_list,
                         {i \in MatchingSearch(strip(ui.search_box)) :
                            recipes[i].is_favorite = 1})

\* C25: list_recipes(search) returns exactly the recipes whose title or
\* ingredients text contains the search string as a case-insensitive
\* substring, every recipe when there is no search, in ascending title
\* order, and the "Favorites only" load of HomeChefWidget shows the
\* favorites filtered the same way
C25_SearchReturnsContaining ==
    /\ op.name = "list_recipes" => ExactlyAscending(ret, MatchingSearch(op.arg))
    /\ FavoritesFiltered

=============================================================================
